---- MODULE Spec2Model ----
(***************************************************************************)
(* A model of the CVE data pipeline of cve.icu: the feature extractor and  *)
(* the loader/cleaner of src/src/cve_analyzer/data_processor.py and the    *)
(* aggregation engine of src/src/cve_analyzer/analyzer.py.                 *)
(*                                                                         *)
(* Text is modelled character by character: a Python str is a sequence of  *)
(* one-character strings, so that splitting, searching and parsing are     *)
(* computed and not assumed.  A JSON value is a tagged record.  A number   *)
(* is held in tenths (9.8 is 98), the precision of a CVSS score.           *)
(***************************************************************************)
EXTENDS Integers, Sequences, FiniteSets, TLC

VARIABLES
    entry0,          \* extractor: the RawEntry as it was read
    entry,           \* extractor: the same RawEntry after damage to some sub-trees
    touched,         \* extractor: the paths at which entry was made to differ from entry0
    record0,         \* extractor: extract_cve_features(entry0), once called
    record,          \* extractor: extract_cve_features(entry), once called
    raw_df,          \* cleaner: the table handed to _clean_dataframe
    processed_data,  \* cleaner: the table _clean_dataframe returned
    data,            \* analyzer: CVEAnalyzer.data
    copy_on_write,   \* analyzer: whether the installed pandas runs in Copy-on-Write mode
    data_copy,       \* analyzer: the local data_copy of analyze_cna_distribution at its return
    cna,             \* analyzer: what analyze_cna_distribution returned
    growth,          \* analyzer: what analyze_growth_trends returned
    cvss,            \* analyzer: what analyze_cvss_distribution returned
    attack,          \* analyzer: what analyze_attack_vectors returned
    cwe,             \* analyzer: what analyze_cwe_distribution returned
    files,           \* loader: the sources the locator matches, in glob order
    raw_data,        \* loader: CVEDataProcessor.raw_data
    loaded,          \* loader: how the last call of the loader ended
    year,            \* queries: the year asked for
    filtered,        \* queries: what filter_by_year returned
    statistics,      \* queries: what get_statistics returned
    year_statistics, \* queries: what get_year_statistics returned
    summary          \* queries: what generate_summary_report returned

vars == <<entry0, entry, touched, record0, record, raw_df, processed_data,
          data, copy_on_write, data_copy, cna, growth, cvss, attack, cwe,
          files, raw_data, loaded, year, filtered, statistics, year_statistics, summary>>

extractVars == <<entry0, entry, touched, record0, record>>
cleanVars == <<raw_df, processed_data>>
analyzerVars == <<data, copy_on_write, data_copy, cna, growth, cvss, attack, cwe>>

loaderVars == <<files, raw_data, loaded>>
queryVars == <<year, filtered, statistics, year_statistics, summary>>

\* The value of a variable that nothing has been assigned to yet.
Unset == [t |-> "unset"]

\* The loader and the queries take no part.
NoLoader == files = Unset /\ raw_data = Unset /\ loaded = Unset
NoQueries ==
    /\ year = Unset /\ filtered = Unset /\ statistics = Unset
    /\ year_statistics = Unset /\ summary = Unset

-----------------------------------------------------------------------------
(* Text.                                                                   *)

Min(a, b) == IF a < b THEN a ELSE b

S_Missing_Data == <<"M","i","s","s","i","n","g","_","D","a","t","a">>
S_Missing_ == <<"M","i","s","s","i","n","g","_">>
S_Rejected == <<"R","e","j","e","c","t","e","d">>
S_Analyzed == <<"A","n","a","l","y","z","e","d">>
S_zero == <<"0",".","0">>
S_empty == <<>>

-----------------------------------------------------------------------------
(* JSON values, as json.loads builds them.                                 *)

JNull == [t |-> "null"]
JNaN == [t |-> "nan"]
JStr(s) == [t |-> "str", s |-> s]
JNum(n) == [t |-> "num", n |-> n]
JList(items) == [t |-> "list", items |-> items]
JDict(m) == [t |-> "dict", m |-> m]
EmptyDict == JDict([k \in {} |-> JNull])

\* One step of a traversal path: a mapping key or a list index.
K(name) == [k |-> "key", name |-> name]
I(i) == [k |-> "idx", i |-> i]

\* Python's entry[key]: the child, or the exception the subscript raises.
Subscript(v, key) ==
    LET ok(c) == [exc |-> "none", v |-> c]
        err(e) == [exc |-> e, v |-> JNull]
    IN  CASE v.t = "dict" ->
                IF key.k = "key" /\ key.name \in DOMAIN v.m
                    THEN ok(v.m[key.name]) ELSE err("KeyError")
          [] v.t = "list" ->
                IF key.k # "idx" THEN err("TypeError")
                ELSE IF key.i + 1 <= Len(v.items)
                    THEN ok(v.items[key.i + 1]) ELSE err("IndexError")
          [] v.t = "str" ->
                IF key.k # "idx" THEN err("TypeError")
                ELSE IF key.i + 1 <= Len(v.s)
                    THEN ok(JStr(<<v.s[key.i + 1]>>)) ELSE err("IndexError")
          [] OTHER -> err("TypeError")

\* The loop "for key in keys: entry = entry[key]".
RECURSIVE Traverse(_, _)
Traverse(v, keys) ==
    IF keys = <<>> THEN [exc |-> "none", v |-> v]
    ELSE LET r == Subscript(v, Head(keys))
         IN  IF r.exc # "none" THEN r ELSE Traverse(r.v, Tail(keys))

\* A mutant: the except clause forgets TypeError.
CaughtExceptionsNoTypeError == {"KeyError", "IndexError"}

\* except (KeyError, IndexError, TypeError)
CaughtExceptions == {"KeyError", "IndexError", "TypeError"}

\* get_nested_value: the value at the path, the default when a caught
\* exception was raised on the way, and the exception itself otherwise.
get_nested_value(e, keys, default) ==
    LET r == Traverse(e, keys)
    IN  IF r.exc = "none" THEN [raised |-> FALSE, v |-> r.v]
        ELSE IF r.exc \in CaughtExceptions THEN [raised |-> FALSE, v |-> default]
        ELSE [raised |-> TRUE, v |-> default]

Fields == {"CVE", "Published", "AttackVector", "AttackComplexity",
           "PrivilegesRequired", "UserInteraction", "Scope",
           "ConfidentialityImpact", "IntegrityImpact", "AvailabilityImpact",
           "BaseScore", "BaseSeverity", "ExploitabilityScore", "ImpactScore",
           "CWE", "Description", "Assigner", "Tag", "Status"}

V31 == <<K("cve"), K("metrics"), K("cvssMetricV31"), I(0)>>
CvssData(name) == V31 \o <<K("cvssData"), K(name)>>

\* The traversal path of each field of the Record.
FieldPath(f) ==
    CASE f = "CVE" -> <<K("cve"), K("id")>>
      [] f = "Published" -> <<K("cve"), K("published")>>
      [] f = "AttackVector" -> CvssData("attackVector")
      [] f = "AttackComplexity" -> CvssData("attackComplexity")
      [] f = "PrivilegesRequired" -> CvssData("privilegesRequired")
      [] f = "UserInteraction" -> CvssData("userInteraction")
      [] f = "Scope" -> CvssData("scope")
      [] f = "ConfidentialityImpact" -> CvssData("confidentialityImpact")
      [] f = "IntegrityImpact" -> CvssData("integrityImpact")
      [] f = "AvailabilityImpact" -> CvssData("availabilityImpact")
      [] f = "BaseScore" -> CvssData("baseScore")
      [] f = "BaseSeverity" -> CvssData("baseSeverity")
      [] f = "ExploitabilityScore" -> V31 \o <<K("exploitabilityScore")>>
      [] f = "ImpactScore" -> V31 \o <<K("impactScore")>>
      [] f = "CWE" -> <<K("cve"), K("weaknesses"), I(0), K("description"), I(0), K("value")>>
      [] f = "Description" -> <<K("cve"), K("descriptions"), I(0), K("value")>>
      [] f = "Assigner" -> <<K("cve"), K("sourceIdentifier")>>
      [] f = "Tag" -> <<K("cve"), K("cveTags"), I(0), K("tags")>>
      [] f = "Status" -> <<K("cve"), K("vulnStatus")>>

\* The default each field is extracted with.
FieldDefault(f) ==
    CASE f = "BaseScore" -> JStr(S_zero)
      [] f = "Description" -> JStr(S_empty)
      [] f = "Tag" -> JNaN
      [] f = "Status" -> JStr(S_empty)
      [] OTHER -> JStr(S_Missing_Data)

\* A mutant: one try around the whole record, so that a field whose path
\* fails leaves every field at its default.
extract_all_or_nothing(e) ==
    LET got == [f \in Fields |-> get_nested_value(e, FieldPath(f), FieldDefault(f))]
        failed == \E f \in Fields : Traverse(e, FieldPath(f)).exc # "none"
    IN  [raised |-> \E f \in Fields : got[f].raised,
         rec |-> [f \in Fields |-> IF failed THEN FieldDefault(f) ELSE got[f].v]]

\* extract_cve_features: the dict literal of nineteen get_nested_value calls;
\* an exception leaving any of them leaves the function.
extract_cve_features(e) ==
    LET got == [f \in Fields |-> get_nested_value(e, FieldPath(f), FieldDefault(f))]
    IN  [raised |-> \E f \in Fields : got[f].raised,
         rec |-> [f \in Fields |-> got[f].v]]

-----------------------------------------------------------------------------
(* The extractor's inputs: one well-formed NVD entry, entries that are not *)
(* mappings, and what is left of them after sub-trees are replaced or      *)
(* removed.                                                                *)

S_id == <<"C","V","E","-","1">>
S_ab == <<"a","b">>
S_NETWORK == <<"N","E","T">>
S_LOCAL == <<"L","O","C">>
S_LOW == <<"L","O","W">>
S_NONE == <<"N","O","N","E">>
S_HIGH == <<"H","I","G","H">>
S_CWE78 == <<"C","W","E","-","7","8">>
S_CWE79 == <<"C","W","E","-","7","9">>
S_2023_01_15 == <<"2","0","2","3","-","0","1","-","1","5">>
S_assigner == <<"a","@","s",".","o">>

FullEntry ==
    JDict([cve |-> JDict([
        id |-> JStr(S_id),
        published |-> JStr(S_2023_01_15),
        descriptions |-> JList(<<JDict([value |-> JStr(S_ab)])>>),
        sourceIdentifier |-> JStr(S_assigner),
        vulnStatus |-> JStr(S_Analyzed),
        metrics |-> JDict([cvssMetricV31 |-> JList(<<JDict([
            cvssData |-> JDict([
                attackVector |-> JStr(S_NETWORK),
                attackComplexity |-> JStr(S_LOW),
                privilegesRequired |-> JStr(S_NONE),
                userInteraction |-> JStr(S_NONE),
                scope |-> JStr(S_LOW),
                confidentialityImpact |-> JStr(S_HIGH),
                integrityImpact |-> JStr(S_HIGH),
                availabilityImpact |-> JStr(S_HIGH),
                baseScore |-> JNum(98),
                baseSeverity |-> JStr(S_HIGH)]),
            exploitabilityScore |-> JNum(39),
            impactScore |-> JNum(59)])>>)]),
        weaknesses |-> JList(<<JDict([
            description |-> JList(<<JDict([value |-> JStr(S_CWE78)])>>)])>>),
        cveTags |-> JList(<<JDict([tags |-> JStr(S_ab)])>>)])])

BaseEntries == {FullEntry, EmptyDict, JNull, JStr(S_ab), JNum(5), JList(<<>>)}

\* What a sub-tree is replaced by.
Junk == {JNull, JStr(S_ab), JList(<<>>), EmptyDict}

\* How many sub-trees of one entry are damaged.
MaxDamage == 2

IsPrefix(p, q) == Len(p) <= Len(q) /\ SubSeq(q, 1, Len(p)) = p

\* The fields on whose paths the entries are damaged: one of each shape of
\* path (two keys; through the metric list, inside and beside cvssData;
\* through two lists; through a list of tags).
DamagedFields == {"CVE", "BaseScore", "ExploitabilityScore", "CWE", "Tag"}

\* The places of an entry: every prefix of such a path, the empty prefix
\* (the entry itself) included.
Places ==
    UNION {{SubSeq(FieldPath(f), 1, n) : n \in 0..Len(FieldPath(f))} : f \in DamagedFields}

\* v with the sub-tree at path replaced by new; a mapping gains the last key
\* of the path when it lacks it; v itself when the path leads nowhere.
RECURSIVE SetAt(_, _, _)
SetAt(v, path, new) ==
    IF path = <<>> THEN new
    ELSE LET k == Head(path)
         IN  IF v.t = "dict" /\ k.k = "key"
             THEN IF k.name \in DOMAIN v.m
                  THEN JDict([v.m EXCEPT ![k.name] = SetAt(v.m[k.name], Tail(path), new)])
                  ELSE IF Len(path) = 1
                       THEN JDict([x \in DOMAIN v.m \cup {k.name} |->
                                    IF x = k.name THEN new ELSE v.m[x]])
                       ELSE v
             ELSE IF v.t = "list" /\ k.k = "idx" /\ k.i + 1 <= Len(v.items)
                  THEN JList([v.items EXCEPT ![k.i + 1] = SetAt(v.items[k.i + 1], Tail(path), new)])
                  ELSE v

\* v without the key or the list element the path leads to.
RECURSIVE DeleteAt(_, _)
DeleteAt(v, path) ==
    IF path = <<>> THEN v
    ELSE LET k == Head(path)
         IN  IF v.t = "dict" /\ k.k = "key" /\ k.name \in DOMAIN v.m
             THEN IF Len(path) = 1
                  THEN JDict([x \in DOMAIN v.m \ {k.name} |-> v.m[x]])
                  ELSE JDict([v.m EXCEPT ![k.name] = DeleteAt(v.m[k.name], Tail(path))])
             ELSE IF v.t = "list" /\ k.k = "idx" /\ k.i + 1 <= Len(v.items)
                  THEN IF Len(path) = 1
                       THEN JList([j \in 1..(Len(v.items) - 1) |->
                                    IF j < k.i + 1 THEN v.items[j] ELSE v.items[j + 1]])
                       ELSE JList([v.items EXCEPT ![k.i + 1] = DeleteAt(v.items[k.i + 1], Tail(path))])
                  ELSE v

InitExtract ==
    /\ entry0 \in BaseEntries
    /\ entry = entry0
    /\ touched = {}
    /\ record0 = Unset
    /\ record = Unset
    /\ raw_df = Unset /\ processed_data = Unset
    /\ data = Unset /\ copy_on_write = FALSE /\ data_copy = Unset
    /\ cna = Unset /\ growth = Unset /\ cvss = Unset /\ attack = Unset /\ cwe = Unset
    /\ NoLoader /\ NoQueries

\* The source holds other data at a place.
Replace(p, j) ==
    /\ record = Unset
    /\ Cardinality(touched) < MaxDamage
    /\ entry' = SetAt(entry, p, j)
    /\ touched' = touched \cup {p}
    /\ UNCHANGED <<entry0, record0, record, cleanVars, analyzerVars, loaderVars, queryVars>>

\* The source lacks a key or a list element.
Remove(p) ==
    /\ record = Unset
    /\ p # <<>>
    /\ Cardinality(touched) < MaxDamage
    /\ entry' = DeleteAt(entry, p)
    /\ touched' = touched \cup {p}
    /\ UNCHANGED <<entry0, record0, record, cleanVars, analyzerVars, loaderVars, queryVars>>

\* process_data's loop body, for the entry as read and as damaged.
Extract ==
    /\ record = Unset
    /\ record0' = extract_cve_features(entry0)
    /\ record' = extract_cve_features(entry)
    /\ UNCHANGED <<entry0, entry, touched, cleanVars, analyzerVars, loaderVars, queryVars>>

NextExtract ==
    \/ \E p \in Places, j \in Junk : Replace(p, j)
    \/ \E p \in Places : Remove(p)
    \/ Extract

SpecExtract == InitExtract /\ [][NextExtract]_vars

-----------------------------------------------------------------------------
(* Claims about the extractor, checked under SpecExtract.                  *)

\* Whether every step of a path finds what it asks for: a mapping holding
\* the key, a list holding the index.
RECURSIVE Resolves(_, _)
Resolves(v, path) ==
    IF path = <<>> THEN TRUE
    ELSE LET k == Head(path)
         IN  IF k.k = "key"
             THEN v.t = "dict" /\ k.name \in DOMAIN v.m
                  /\ Resolves(v.m[k.name], Tail(path))
             ELSE v.t = "list" /\ k.i + 1 <= Len(v.items)
                  /\ Resolves(v.items[k.i + 1], Tail(path))

Complete(e, r) ==
    /\ ~r.raised
    /\ DOMAIN r.rec = Fields
    /\ Cardinality(DOMAIN r.rec) = 19
    /\ \A f \in Fields : ~Resolves(e, FieldPath(f)) => r.rec[f] = FieldDefault(f)

\* C8: extract_cve_features is total: for an entry of any shape it raises
\* nothing and returns a Record of all 19 fields, in which every field whose
\* path meets a missing key, a missing index or a value of the wrong type
\* holds that field's default.
C8_ExtractTotal ==
    record # Unset => Complete(entry, record) /\ Complete(entry0, record0)

\* C8's case: an entry with a type mismatch on one path and a missing index
\* on another was extracted, and a field with an intact path kept its value.
C8_Witness ==
    /\ record # Unset
    /\ \E f \in Fields : Traverse(entry, FieldPath(f)).exc = "TypeError"
    /\ \E f \in Fields : Traverse(entry, FieldPath(f)).exc = "IndexError"
    /\ record.rec["CVE"] = JStr(S_id)

\* The fields whose path passes through no damaged place.
Untouched(f) == \A p \in touched : ~IsPrefix(p, FieldPath(f))

\* C9: two entries that agree along the path of a field yield the same
\* value for it, whatever is missing or malformed on other paths.
C9_FieldIndependence ==
    record # Unset =>
        \A f \in Fields : Untouched(f) => record.rec[f] = record0.rec[f]

\* C9's case: a damaged entry was extracted; a field on the damaged path
\* changed and a field off it kept a value that is not its default.
C9_Witness ==
    /\ record # Unset
    /\ touched # {}
    /\ \E f \in Fields : ~Untouched(f) /\ record.rec[f] # record0.rec[f]
    /\ \E f \in Fields : Untouched(f) /\ record.rec[f] # FieldDefault(f)

-----------------------------------------------------------------------------
(* Tables.  A DataFrame is its set of columns and its sequence of rows, a  *)
(* row a function from the columns to values.  A cell is a JSON value, and *)
(* after cleaning a timestamp, NaT, a number or NaN.                       *)

Table(cols, rows) == [cols |-> cols, rows |-> rows]

\* pd.DataFrame(): no columns, no rows.
EmptyFrame == Table({}, <<>>)

\* DataFrame.empty: some axis has length 0.
df_empty(df) == df.cols = {} \/ Len(df.rows) = 0

\* re.search(pat, s) for a pattern of literal characters and ".", which
\* matches any character but a newline.
regex_search(pat, s) ==
    \E i \in 1..(Len(s) - Len(pat) + 1) :
        \A j \in 1..Len(pat) :
            IF pat[j] = "." THEN s[i + j - 1] # "\n" ELSE s[i + j - 1] = pat[j]

\* A mutant: the whole value is compared with the pattern.
str_equals(v, pat) == v.t = "str" /\ v.s = pat

\* Series.str.contains(pat, na=False) on one cell: pat is a regular
\* expression (regex=True is the default); a cell that is no str gives False.
str_contains(v, pat) == v.t = "str" /\ regex_search(pat, v.s)

-----------------------------------------------------------------------------
(* Timestamps and numbers, as pandas parses them.                          *)

Digits == {"0", "1", "2", "3", "4", "5", "6", "7", "8", "9"}

Digit(c) ==
    CASE c = "0" -> 0 [] c = "1" -> 1 [] c = "2" -> 2 [] c = "3" -> 3 [] c = "4" -> 4
      [] c = "5" -> 5 [] c = "6" -> 6 [] c = "7" -> 7 [] c = "8" -> 8 [] c = "9" -> 9

AllDigits(s) == \A i \in 1..Len(s) : s[i] \in Digits

\* The number a string of digits writes.
RECURSIVE Number(_)
Number(s) ==
    IF s = <<>> THEN 0 ELSE 10 * Number(SubSeq(s, 1, Len(s) - 1)) + Digit(s[Len(s)])

NaT == [t |-> "nat"]
Timestamp(y, mo, d, h, mi, sec) ==
    [t |-> "ts", y |-> y, mo |-> mo, d |-> d, h |-> h, mi |-> mi, sec |-> sec]

IsLeap(y) == (y % 4 = 0 /\ y % 100 # 0) \/ y % 400 = 0

DaysIn(y, mo) ==
    IF mo = 2 THEN (IF IsLeap(y) THEN 29 ELSE 28)
    ELSE IF mo \in {4, 6, 9, 11} THEN 30 ELSE 31

\* An ISO 8601 date, YYYY-MM-DD.
parse_date(s) ==
    IF /\ Len(s) = 10
       /\ s[5] = "-" /\ s[8] = "-"
       /\ AllDigits(SubSeq(s, 1, 4)) /\ AllDigits(SubSeq(s, 6, 7)) /\ AllDigits(SubSeq(s, 9, 10))
    THEN LET y == Number(SubSeq(s, 1, 4))
             mo == Number(SubSeq(s, 6, 7))
             d == Number(SubSeq(s, 9, 10))
         IN  IF y >= 1 /\ mo \in 1..12 /\ d >= 1 /\ d <= DaysIn(y, mo)
             THEN Timestamp(y, mo, d, 0, 0, 0) ELSE NaT
    ELSE NaT

\* The time of day of an ISO 8601 timestamp, THH:MM:SS.
parse_time(s, day) ==
    IF /\ Len(s) = 9
       /\ s[1] = "T" /\ s[4] = ":" /\ s[7] = ":"
       /\ AllDigits(SubSeq(s, 2, 3)) /\ AllDigits(SubSeq(s, 5, 6)) /\ AllDigits(SubSeq(s, 8, 9))
    THEN LET h == Number(SubSeq(s, 2, 3))
             mi == Number(SubSeq(s, 5, 6))
             sec == Number(SubSeq(s, 8, 9))
         IN  IF h <= 23 /\ mi <= 59 /\ sec <= 59
             THEN Timestamp(day.y, day.mo, day.d, h, mi, sec) ELSE NaT
    ELSE NaT

\* pd.to_datetime(errors='coerce') on one cell of a column whose timestamps
\* share one format: a date, a date and time, and NaT for any other text and
\* for a missing value.
to_datetime(v) ==
    CASE v.t = "str" ->
            IF Len(v.s) = 10 THEN parse_date(v.s)
            ELSE IF Len(v.s) = 19
                 THEN LET day == parse_date(SubSeq(v.s, 1, 10))
                      IN  IF day = NaT THEN NaT ELSE parse_time(SubSeq(v.s, 11, 19), day)
                 ELSE NaT
      [] v.t \in {"null", "nan"} -> NaT

\* The place of a timestamp on the time line: its day (months counted as 31
\* days: an order, not a duration) and its second of the day.
DayKey(ts) == (ts.y * 12 + (ts.mo - 1)) * 31 + (ts.d - 1)
SecKey(ts) == (ts.h * 60 + ts.mi) * 60 + ts.sec

\* a <= b and a < b on timestamps.
TsLeq(a, b) == DayKey(a) < DayKey(b) \/ (DayKey(a) = DayKey(b) /\ SecKey(a) <= SecKey(b))
TsLess(a, b) == ~TsLeq(b, a)

\* The position of the first c in a string, 0 when it has none.
FirstIndex(s, c) ==
    IF \E i \in 1..Len(s) : s[i] = c
    THEN CHOOSE i \in 1..Len(s) : s[i] = c /\ \A j \in 1..(i - 1) : s[j] # c
    ELSE 0

\* float(text) for a decimal of at most one fractional digit, in tenths;
\* NaN for text that writes no number.
parse_float(s) ==
    LET dot == FirstIndex(s, ".")
        whole == IF dot = 0 THEN s ELSE SubSeq(s, 1, dot - 1)
        frac == IF dot = 0 THEN <<>> ELSE SubSeq(s, dot + 1, Len(s))
    IN  IF /\ AllDigits(whole) /\ AllDigits(frac)
           /\ Len(whole) + Len(frac) >= 1
           /\ Len(frac) <= 1
        THEN JNum(10 * Number(whole) + Number(frac))
        ELSE JNaN

\* pd.to_numeric(errors='coerce') on one cell.
to_numeric(v) ==
    CASE v.t = "num" -> v
      [] v.t = "str" -> parse_float(v.s)
      [] OTHER -> JNaN

\* A mutant: the score 0 is kept.
keep_zero(v) == v

\* Series.replace(0, np.nan) on one cell.
replace_zero(v) == IF v.t = "num" /\ v.n = 0 THEN JNaN ELSE v

-----------------------------------------------------------------------------
(* The cleaner: CVEDataProcessor._clean_dataframe.                         *)

\* df[~df.Status.str.contains('Rejected', na=False)]
filter_rejected(df) ==
    IF "Status" \in df.cols
    THEN Table(df.cols, SelectSeq(df.rows, LAMBDA r : ~str_contains(r["Status"], S_Rejected)))
    ELSE df

\* A mutant: missing values first, as with na_position='first'.
MayPrecedeNullsFirst(a, b) ==
    IF a = NaT THEN TRUE
    ELSE IF b = NaT THEN FALSE
    ELSE TsLeq(a, b)

\* Whether a row with Published a may stand before a row with Published b
\* in ascending order, missing values last.
MayPrecede(a, b) ==
    IF b = NaT THEN TRUE
    ELSE IF a = NaT THEN FALSE
    ELSE TsLeq(a, b)

\* sort_values(by=[col]): every order of the rows that ascends by col with
\* the missing values last; the order of rows with equal keys is the sort
\* algorithm's (quicksort, which is not stable).
RECURSIVE SortOrders(_, _, _)
SortOrders(rows, idx, col) ==
    IF idx = {} THEN {<<>>}
    ELSE LET firsts == {i \in idx : \A j \in idx : MayPrecede(rows[i][col], rows[j][col])}
         IN  UNION {{<<rows[i]>> \o rest : rest \in SortOrders(rows, idx \ {i}, col)} : i \in firsts}

\* df['BaseScore'] = pd.to_numeric(...); df['BaseScore'].replace(0, np.nan)
process_scores(df) ==
    IF "BaseScore" \in df.cols
    THEN Table(df.cols, [i \in 1..Len(df.rows) |->
            [df.rows[i] EXCEPT !["BaseScore"] = replace_zero(to_numeric(@))]])
    ELSE df

\* A mutant: the rows whose Published is no date are dropped.
process_dates_dropna(df) ==
    IF "Published" \in df.cols
    THEN LET dated == SelectSeq([i \in 1..Len(df.rows) |->
                                    [df.rows[i] EXCEPT !["Published"] = to_datetime(@)]],
                                LAMBDA r : r["Published"] # NaT)
         IN  {Table(df.cols, order) : order \in SortOrders(dated, 1..Len(dated), "Published")}
    ELSE {df}

\* df['Published'] = pd.to_datetime(...); sort_values; reset_index(drop=True):
\* the tables this step can produce.
process_dates(df) ==
    IF "Published" \in df.cols
    THEN LET dated == [i \in 1..Len(df.rows) |->
                        [df.rows[i] EXCEPT !["Published"] = to_datetime(@)]]
         IN  {Table(df.cols, order) : order \in SortOrders(dated, 1..Len(dated), "Published")}
    ELSE {df}

\* The row labels of the table _clean_dataframe returns for df, whose own
\* labels are 0..N-1: the filter keeps the labels of the rows it keeps, and
\* reset_index(drop=True), reached with a Published column only, numbers the
\* rows anew.
clean_index(df) ==
    IF df_empty(df) THEN [i \in 1..Len(df.rows) |-> i - 1]
    ELSE LET kept == SelectSeq([i \in 1..Len(df.rows) |-> i - 1],
                               LAMBDA l : "Status" \in df.cols =>
                                            ~str_contains(df.rows[l + 1]["Status"], S_Rejected))
         IN  IF "Published" \in df.cols THEN [i \in 1..Len(kept) |-> i - 1] ELSE kept

\* _clean_dataframe: the tables it can return for df.
clean_dataframe(df) ==
    IF df_empty(df) THEN {df}
    ELSE {process_scores(sorted) : sorted \in process_dates(filter_rejected(df))}

-----------------------------------------------------------------------------
(* The cleaner's inputs.                                                   *)

T_midnight == <<"T","0","0",":","0","0",":","0","0">>
S_2022_11_05 == <<"2","0","2","2","-","1","1","-","0","5">>
P_2023_01_15 == JStr(S_2023_01_15 \o T_midnight)
P_2022_11_05 == JStr(S_2022_11_05 \o T_midnight)
P_missing == JStr(S_Missing_Data)

S_rejected_lower == <<"r","e","j","e","c","t","e","d">>
S_Rejected_infix == <<"x">> \o S_Rejected \o <<"y">>
S_9_8 == <<"9",".","8">>
S_invalid == <<"i","n","v">>

Row(id, status, published, score) ==
    [CVE |-> JStr(<<"r", id>>), Status |-> status, Published |-> published, BaseScore |-> score]

\* The raw rows of the model: every Status with one score, every BaseScore
\* with one status, and rows without a date.
RawRows ==
    {Row("1", JStr(S_Analyzed), P_2023_01_15, JNum(75)),
     Row("2", JStr(S_Rejected), P_2023_01_15, JNum(75)),
     Row("3", JStr(S_rejected_lower), P_2023_01_15, JNum(75)),
     Row("4", JStr(S_Rejected_infix), P_2022_11_05, JNum(0)),
     Row("5", JNull, P_2023_01_15, JNum(75)),
     Row("6", JStr(S_empty), P_2022_11_05, JNum(0)),
     Row("7", JStr(S_Analyzed), P_2022_11_05, JStr(S_zero)),
     Row("8", JStr(S_Analyzed), P_2022_11_05, JStr(S_9_8)),
     Row("9", JStr(S_Analyzed), P_missing, JStr(S_invalid)),
     Row("a", JStr(S_Analyzed), P_missing, JNull),
     Row("b", JStr(S_Analyzed), P_2023_01_15, JNum(54))}

\* The columns a raw table can have: a Record's, and those of the tables the
\* unit tests clean.
ColumnSets == {{"CVE", "Status", "Published", "BaseScore"}, {"BaseScore", "Status"}, {"CVE"}}

\* How many rows a raw table has.
MaxRows == 3

Restrict(r, cols) == [c \in cols |-> r[c]]

\* A raw table: no table at all, or some rows under one of the column sets.
RawTable(cols, rows) == Table(cols, [i \in 1..Len(rows) |-> Restrict(rows[i], cols)])

InitClean ==
    /\ \/ raw_df = EmptyFrame
       \/ \E cols \in ColumnSets, k \in 0..MaxRows :
            \E rows \in [1..k -> RawRows] : raw_df = RawTable(cols, rows)
    /\ processed_data = Unset
    /\ entry0 = Unset /\ entry = Unset /\ touched = {} /\ record0 = Unset /\ record = Unset
    /\ data = Unset /\ copy_on_write = FALSE /\ data_copy = Unset
    /\ cna = Unset /\ growth = Unset /\ cvss = Unset /\ attack = Unset /\ cwe = Unset
    /\ NoLoader /\ NoQueries

\* df = self._clean_dataframe(df); self.processed_data = df
Clean ==
    /\ processed_data = Unset
    /\ processed_data' \in clean_dataframe(raw_df)
    /\ UNCHANGED <<raw_df, extractVars, analyzerVars, loaderVars, queryVars>>

NextClean == Clean

SpecClean == InitClean /\ [][NextClean]_vars

-----------------------------------------------------------------------------
(* Claims about the cleaner, checked under SpecClean.                      *)

\* s holds pat as a substring, character for character.
HasSubstring(s, pat) ==
    \E i \in 1..(Len(s) - Len(pat) + 1) : SubSeq(s, i, i + Len(pat) - 1) = pat

\* A row whose Status contains "Rejected".
IsRejected(r) ==
    "Status" \in DOMAIN r /\ r["Status"].t = "str" /\ HasSubstring(r["Status"].s, S_Rejected)

\* What cleaning leaves of a row as it is: all but Published and BaseScore.
Kept(r) == [c \in DOMAIN r \ {"Published", "BaseScore"} |-> r[c]]

\* How many rows are left of r as it is.
CountKept(rows, r) == Cardinality({i \in 1..Len(rows) : Kept(rows[i]) = Kept(r)})

\* C6: of N raw rows of which K have a Status containing "Rejected", the
\* cleaned table holds exactly N-K, none of them Rejected, and every other
\* row as often as the raw table did.
C6_RejectedFilter ==
    processed_data # Unset =>
        LET raw == raw_df.rows
            out == processed_data.rows
            rejected == Cardinality({i \in 1..Len(raw) : IsRejected(raw[i])})
        IN  /\ Len(out) = Len(raw) - rejected
            /\ \A i \in 1..Len(out) : ~IsRejected(out[i])
            /\ \A i \in 1..Len(raw) :
                ~IsRejected(raw[i]) =>
                    CountKept(out, raw[i]) = CountKept(raw, raw[i])

\* C6's case: three raw rows, one of them Rejected inside a longer Status and
\* one "rejected" in lower case, were cleaned and two rows are left.
C6_Witness ==
    /\ processed_data # Unset
    /\ Len(raw_df.rows) = 3
    /\ \E i \in 1..3 : raw_df.rows[i] = Row("4", JStr(S_Rejected_infix), P_2022_11_05, JNum(0))
    /\ \E i \in 1..3 : raw_df.rows[i] = Row("3", JStr(S_rejected_lower), P_2023_01_15, JNum(75))
    /\ Len(processed_data.rows) = 2

\* The score the claim gives each raw BaseScore of the model: null for 0,
\* "0.0" and text that is no number (and for a missing score), the number
\* itself for a nonzero number or numeric string.
ClaimedScore(v) ==
    CASE v = JNum(0) -> JNaN
      [] v = JStr(S_zero) -> JNaN
      [] v = JStr(S_invalid) -> JNaN
      [] v = JNull -> JNaN
      [] v = JNum(75) -> JNum(75)
      [] v = JNum(54) -> JNum(54)
      [] v = JStr(S_9_8) -> JNum(98)

\* C7: after cleaning, a row whose BaseScore was 0, "0.0" or non-numeric text
\* has a null BaseScore and a row whose BaseScore was a nonzero number, given
\* as a number or as text, has that number; no cleaned BaseScore is 0.
C7_BaseScore ==
    (processed_data # Unset /\ "BaseScore" \in raw_df.cols /\ raw_df.rows # <<>>) =>
        LET raw == raw_df.rows
            out == processed_data.rows
        IN  /\ \A i \in 1..Len(out) : out[i]["BaseScore"] # JNum(0)
            /\ \A i \in 1..Len(raw) :
                ~IsRejected(raw[i]) =>
                    LET same(r) == Kept(r) = Kept(raw[i])
                        score == ClaimedScore(raw[i]["BaseScore"])
                    IN  Cardinality({j \in 1..Len(out) :
                            same(out[j]) /\ out[j]["BaseScore"] = score})
                          = Cardinality({j \in 1..Len(raw) :
                            same(raw[j]) /\ ClaimedScore(raw[j]["BaseScore"]) = score})

\* C7's case: rows with the scores "0.0", "9.8" and "inv" were cleaned.
C7_Witness ==
    /\ processed_data # Unset
    /\ \A v \in {JStr(S_zero), JStr(S_9_8), JStr(S_invalid)} :
          \E i \in 1..Len(raw_df.rows) :
              "BaseScore" \in raw_df.cols /\ raw_df.rows[i]["BaseScore"] = v
    /\ \E i \in 1..Len(processed_data.rows) : processed_data.rows[i]["BaseScore"] = JNum(98)
    /\ Cardinality({i \in 1..Len(processed_data.rows) : processed_data.rows[i]["BaseScore"] = JNaN}) = 2

\* C23: after cleaning a table that has a Published column the rows are in
\* non-decreasing Published order, the rows with null Published stand
\* together after every dated row, and the row index is 0..n-1.
C23_SortInvariant ==
    (processed_data # Unset /\ "Published" \in raw_df.cols) =>
        LET out == processed_data.rows
        IN  /\ \A i, j \in DOMAIN out :
                    (i < j /\ out[i]["Published"] # NaT /\ out[j]["Published"] # NaT) =>
                        ~TsLess(out[j]["Published"], out[i]["Published"])
            /\ \A i, j \in DOMAIN out :
                    (i < j /\ out[i]["Published"] = NaT) => out[j]["Published"] = NaT
            /\ clean_index(raw_df) = [i \in DOMAIN out |-> i - 1]

\* C23's case: a later row, a row without a date and an earlier row, in
\* this order, were cleaned.
C23_Witness ==
    /\ processed_data # Unset /\ "Published" \in raw_df.cols
    /\ Len(raw_df.rows) = 3 /\ Len(processed_data.rows) = 3
    /\ raw_df.rows[1]["Published"] = P_2023_01_15
    /\ raw_df.rows[2]["Published"] = P_missing
    /\ raw_df.rows[3]["Published"] = P_2022_11_05
    /\ processed_data.rows[3]["Published"] = NaT

-----------------------------------------------------------------------------
(* The aggregation engine: helpers of pandas.                              *)

\* What an analysis returns: {} , a dict of results, or an exception.
EmptyResult == [status |-> "empty"]
Raised == [status |-> "raised"]

\* pd.isna on one cell.
IsNA(v) == v.t \in {"null", "nan", "nat"}

\* Python's s.split(sep) for a separator of one character.
RECURSIVE split(_, _)
split(s, sep) ==
    LET at == FirstIndex(s, sep)
    IN  IF at = 0 THEN <<s>>
        ELSE <<SubSeq(s, 1, at - 1)>> \o split(SubSeq(s, at + 1, Len(s)), sep)

\* The non-missing values of a column.
Values(rows, col) == {rows[i][col] : i \in 1..Len(rows)} \ {JNull, JNaN, NaT}

\* Series.value_counts() before sorting: each non-missing value with the
\* number of rows holding it, as rows of the columns (name, 'counts').
Frequencies(rows, col, name) ==
    {[c \in {name, "counts"} |->
        IF c = name THEN v ELSE Cardinality({i \in 1..Len(rows) : rows[i][col] = v})] :
     v \in Values(rows, col)}

\* The orders value_counts() can give a set of frequencies: descending by
\* count, rows of equal count in the order the sort leaves them.
RECURSIVE CountOrders(_)
CountOrders(freq) ==
    IF freq = {} THEN {<<>>}
    ELSE LET firsts == {e \in freq : \A o \in freq : e["counts"] >= o["counts"]}
         IN  UNION {{<<e>> \o rest : rest \in CountOrders(freq \ {e})} : e \in firsts}

\* DataFrame.head(n)
head(rows, n) == SubSeq(rows, 1, Min(n, Len(rows)))

\* Series.sum() of the counts column.
RECURSIVE SumCounts(_)
SumCounts(rows) == IF rows = <<>> THEN 0 ELSE Head(rows)["counts"] + SumCounts(Tail(rows))

-----------------------------------------------------------------------------
(* analyze_cna_distribution.                                               *)

S_uuid == <<"4","1","6","b","a","a","a","9","-","d","c","9","f","-","4","3","9","6","-",
            "8","d","5","f","-","8","c","0","8","1","f","b","0","6","d","6","7">>
S_kernel == <<"c","v","e","@","k","e","r","n","e","l",".","o","r","g">>
S_mitre_org == <<"m","i","t","r","e",".","o","r","g">>

\* assigner_frequency[...]['counts'] > 100
SignificantCount == 100
\* .head(50)
TopAssigners == 50
\* .head(20)
TopWithoutMitre == 20

\* Series.replace('416baaa9-...', 'cve@kernel.org') on one cell.
replace_kernel(v) == IF v = JStr(S_uuid) THEN JStr(S_kernel) ELSE v

\* data_copy['Assigner'].replace(..., inplace=True): an in-place method
\* called on the Series that data_copy['Assigner'] returns.  It reaches the
\* frame only when that Series shares the frame's data; under Copy-on-Write
\* it is a temporary and data_copy keeps its values.
chained_inplace_replace(rows) ==
    IF copy_on_write THEN rows
    ELSE [i \in 1..Len(rows) |-> [rows[i] EXCEPT !["Assigner"] = replace_kernel(@)]]

\* A mutant: the domain is what follows the first '@'.
domain_after_first(v) ==
    IF v.t = "str"
    THEN LET at == FirstIndex(v.s, "@") IN JStr(SubSeq(v.s, at + 1, Len(v.s)))
    ELSE v

\* lambda x: x.split('@')[-1] if isinstance(x, str) else x
domain_of(v) ==
    IF v.t = "str"
    THEN LET parts == split(v.s, "@") IN JStr(parts[Len(parts)])
    ELSE v

\* data_copy.groupby('Domain')['Assigner'].nunique(): for each non-missing
\* Domain, the number of distinct non-missing Assigner values of its rows.
unique_domains(rows) ==
    LET grouped == {<<rows[i]["Domain"], rows[i]["Assigner"]>> : i \in 1..Len(rows)}
    IN  [d \in {g[1] : g \in grouped} \ {JNull, JNaN, NaT} |->
            Cardinality({g \in grouped : g[1] = d /\ ~IsNA(g[2])})]

\* A mutant: every assigner is shown with its local part.
processed_always_local(x, ud) ==
    IF x["Assigner"].t = "str" /\ FirstIndex(x["Assigner"].s, "@") # 0
    THEN JStr(x["Domain"].s \o <<" ", "(">> \o split(x["Assigner"].s, "@")[1] \o <<")">>)
    ELSE x["Assigner"]

\* The lambda that computes ProcessedAssigner for one row x.
processed_assigner(x, ud) ==
    IF (IF x["Domain"] \in DOMAIN ud THEN ud[x["Domain"]] ELSE 0) = 1
    THEN x["Domain"]
    ELSE IF x["Assigner"].t = "str" /\ FirstIndex(x["Assigner"].s, "@") # 0
         THEN JStr(x["Domain"].s \o <<" ", "(">> \o split(x["Assigner"].s, "@")[1] \o <<")">>)
         ELSE x["Assigner"]

\* data_copy['Domain'] = data_copy['Assigner'].apply(...)
with_domain(rows) ==
    [i \in 1..Len(rows) |->
        [c \in DOMAIN rows[i] \cup {"Domain"} |->
            IF c = "Domain" THEN domain_of(rows[i]["Assigner"]) ELSE rows[i][c]]]

\* data_copy['ProcessedAssigner'] = data_copy.apply(..., axis=1)
with_processed(rows, ud) ==
    [i \in 1..Len(rows) |->
        [c \in DOMAIN rows[i] \cup {"ProcessedAssigner"} |->
            IF c = "ProcessedAssigner" THEN processed_assigner(rows[i], ud) ELSE rows[i][c]]]

\* data_copy after the three column computations (a set of one table).
cna_data_copy(df) ==
    {Table(df.cols \cup {"Domain", "ProcessedAssigner"}, with_processed(withDomain, ud)) :
        <<withDomain, ud>> \in
            {<<w, unique_domains(w)>> : w \in {with_domain(chained_inplace_replace(df.rows))}}}

\* The dict analyze_cna_distribution builds from assigner_frequency.
cna_result(assigner_frequency) ==
    LET significant == SelectSeq(assigner_frequency, LAMBDA e : e["counts"] > SignificantCount)
        mitre == SelectSeq(assigner_frequency, LAMBDA e : str_contains(e["Assigner"], S_mitre_org))
        others == SelectSeq(assigner_frequency, LAMBDA e : ~str_contains(e["Assigner"], S_mitre_org))
    IN  [status |-> "ok",
         all_assigners |-> assigner_frequency,
         top_assigners |-> head(significant, TopAssigners),
         top_without_mitre |->
            head(SelectSeq(others, LAMBDA e : e["counts"] > SignificantCount), TopWithoutMitre),
         mitre_cve_count |-> SumCounts(mitre)]

\* The handler, from a table to the results it can return and the
\* data_copy it leaves.  On a zero-row table with an Assigner column the
\* row-wise apply yields no column of strings (a frame, or an empty column
\* of floats, by the version of pandas) and the function raises, at the
\* assignment of ProcessedAssigner or at the .str accessor.
cna_outcomes(df) ==
    IF "Assigner" \notin df.cols
    THEN {[local |-> Unset, result |-> EmptyResult]}
    ELSE IF Len(df.rows) = 0
    THEN {[local |-> Table(df.cols \cup {"Domain"}, <<>>), result |-> Raised]}
    ELSE UNION {{[local |-> local, result |-> cna_result(order)] :
                    order \in CountOrders(Frequencies(local.rows, "ProcessedAssigner", "Assigner"))} :
                local \in cna_data_copy(df)}

-----------------------------------------------------------------------------
(* The tables analyze_cna_distribution is run on.                          *)

S_a_shared == <<"a","@","s","h","a","r","e","d",".","o","r","g">>
S_b_shared == <<"b","@","s","h","a","r","e","d",".","o","r","g">>
S_x_solo == <<"x","@","s","o","l","o",".","o","r","g">>
S_y_z_solo == <<"y","@","z","@","s","o","l","o",".","o","r","g">>
S_cve_mitre == <<"c","v","e","@","m","i","t","r","e",".","o","r","g">>
S_c_mitre_dash == <<"c","@","m","i","t","r","e","-","o","r","g">>
S_shared_org == <<"s","h","a","r","e","d",".","o","r","g">>

\* The assigners a table is drawn from: addresses that share a domain or
\* have one alone, one with two '@', the identifier of the kernel CNA and
\* its address, a bare domain, and a record without a source identifier.
Assigners ==
    <<JStr(S_a_shared), JStr(S_b_shared), JStr(S_x_solo), JStr(S_y_z_solo),
      JStr(S_cve_mitre), JStr(S_c_mitre_dash), JStr(S_uuid), JStr(S_kernel),
      JStr(S_shared_org), JNull>>

\* The most distinct assigners in one table, the fixture aside.
MaxGroups == 2
\* The fixture of the collapsing rule: two addresses of one domain and one
\* address alone on its domain, by their places in Assigners.
CollapsingFixture == {1, 2, 3}
\* The number of rows of an assigner with a significant count.
Many == 101

CnaRow(a, cols) == [c \in cols |-> IF c = "CVE" THEN JStr(S_id) ELSE a]

\* The rows of a table that holds Many rows of the assigners in many and
\* one row of the others in present, from the k-th assigner on.
RECURSIVE CnaRows(_, _, _, _)
CnaRows(present, many, cols, k) ==
    IF k > Len(Assigners) THEN <<>>
    ELSE IF k \notin present THEN CnaRows(present, many, cols, k + 1)
    ELSE [i \in 1..(IF k \in many THEN Many ELSE 1) |-> CnaRow(Assigners[k], cols)]
            \o CnaRows(present, many, cols, k + 1)

InitCNA ==
    /\ entry0 = Unset /\ entry = Unset /\ touched = {} /\ record0 = Unset /\ record = Unset
    /\ raw_df = Unset /\ processed_data = Unset
    /\ copy_on_write \in BOOLEAN
    /\ \E present \in SUBSET (1..Len(Assigners)) :
         /\ Cardinality(present) <= MaxGroups \/ present = CollapsingFixture
         /\ \E many \in SUBSET present : \E cols \in {{"Assigner"}, {"CVE"}} :
              data = Table(cols, CnaRows(present, many, cols, 1))
    /\ data_copy = Unset /\ cna = Unset
    /\ growth = Unset /\ cvss = Unset /\ attack = Unset /\ cwe = Unset
    /\ NoLoader /\ NoQueries

\* A mutant: data_copy = self.data, so that the writes reach self.data.
data_after_alias(df, local) == IF local = Unset THEN df ELSE local

\* self.data once data_copy = self.data.copy() has been written to: the
\* copy is deep and the writes to data_copy do not reach self.data.
data_after_copy(df, local) == df

\* CVEAnalyzer.analyze_cna_distribution()
analyze_cna_distribution ==
    /\ cna = Unset
    /\ \E o \in cna_outcomes(data) :
         /\ data_copy' = o.local
         /\ cna' = o.result
         /\ data' = data_after_copy(data, o.local)
    /\ UNCHANGED <<extractVars, cleanVars, copy_on_write, growth, cvss, attack, cwe, loaderVars, queryVars>>

NextCNA == analyze_cna_distribution

SpecCNA == InitCNA /\ [][NextCNA]_vars

-----------------------------------------------------------------------------
(* What is claimed of analyze_cna_distribution.                            *)

AtPositions(s) == {i \in 1..Len(s) : s[i] = "@"}

\* The text after the last '@', the whole text when there is none.
AfterLastAt(s) ==
    IF AtPositions(s) = {} THEN s
    ELSE LET last == CHOOSE i \in AtPositions(s) : \A j \in AtPositions(s) : j <= i
         IN  SubSeq(s, last + 1, Len(s))

\* The text before the first '@', the whole text when there is none.
BeforeFirstAt(s) ==
    IF AtPositions(s) = {} THEN s
    ELSE LET first == CHOOSE i \in AtPositions(s) : \A j \in AtPositions(s) : i <= j
         IN  SubSeq(s, 1, first - 1)

\* "{d} ({local})"
Labelled(d, local) == d \o <<" ", "(">> \o local \o <<")">>

FrequencyEntry(name, n) ==
    [c \in {"Assigner", "counts"} |-> IF c = "Assigner" THEN JStr(name) ELSE n]

Entries(frequency) == {frequency[i] : i \in DOMAIN frequency}

\* The number of rows of a table that hold assigner a.
RowsOf(df, a) == Cardinality({i \in DOMAIN df.rows : df.rows[i]["Assigner"] = a})

Returned == cna # Unset /\ cna.status = "ok"

C1_Fixture ==
    /\ "Assigner" \in data.cols
    /\ {data.rows[i]["Assigner"] : i \in DOMAIN data.rows}
         = {JStr(S_a_shared), JStr(S_b_shared), JStr(S_x_solo)}

\* C1: on a table whose assigners are a@shared.org, b@shared.org and
\* x@solo.org, all_assigners lists exactly "shared.org (a)", "shared.org (b)"
\* and "solo.org", each with the number of rows of its original assigner.
C1_CollapsingFixture ==
    (C1_Fixture /\ cna # Unset) =>
        /\ cna.status = "ok"
        /\ Len(cna.all_assigners) = 3
        /\ Entries(cna.all_assigners) =
            {FrequencyEntry(Labelled(S_shared_org, <<"a">>), RowsOf(data, JStr(S_a_shared))),
             FrequencyEntry(Labelled(S_shared_org, <<"b">>), RowsOf(data, JStr(S_b_shared))),
             FrequencyEntry(<<"s","o","l","o",".","o","r","g">>, RowsOf(data, JStr(S_x_solo)))}

\* The fixture has been analysed, with unequal row counts.
C1_Witness ==
    /\ C1_Fixture /\ Returned
    /\ RowsOf(data, JStr(S_a_shared)) = Many
    /\ RowsOf(data, JStr(S_b_shared)) = 1

\* The distinct assigners of data_copy whose text after the last '@' is d.
AssignersOn(d) ==
    {a \in Values(data_copy.rows, "Assigner") : a.t = "str" /\ AfterLastAt(a.s) = d}

\* C2 as stated: for every Assigner value a, with or without '@', and d the
\* text after its last '@': the rewritten value is d when one distinct
\* assigner maps to d, and "{d} ({text of a before '@'})" otherwise.
C2_RewriteRule ==
    Returned =>
        \A x \in {data_copy.rows[i] : i \in DOMAIN data_copy.rows} :
            LET d == AfterLastAt(x["Assigner"].s)
            IN  x["Assigner"].t = "str" =>
                    x["ProcessedAssigner"] =
                        JStr(IF Cardinality(AssignersOn(d)) = 1 THEN d
                             ELSE Labelled(d, BeforeFirstAt(x["Assigner"].s)))

\* C2, amended: when two or more distinct assigners map to d, the rewritten
\* value is "{d} ({text before the first '@'})" for an a that contains '@',
\* and a itself for an a that contains none.
C2_RewriteRuleAmended ==
    Returned =>
        \A x \in {data_copy.rows[i] : i \in DOMAIN data_copy.rows} :
            LET d == AfterLastAt(x["Assigner"].s)
            IN  x["Assigner"].t = "str" =>
                    x["ProcessedAssigner"] =
                        JStr(IF Cardinality(AssignersOn(d)) = 1 THEN d
                             ELSE IF AtPositions(x["Assigner"].s) # {}
                                  THEN Labelled(d, BeforeFirstAt(x["Assigner"].s))
                                  ELSE x["Assigner"].s)

\* A bare domain shares its domain with an address and has been rewritten.
C2_Witness ==
    /\ Returned
    /\ {JStr(S_shared_org), JStr(S_a_shared)} = Values(data_copy.rows, "Assigner")

\* An entry whose rewritten assigner holds "mitre.org" as a substring.
NamesMitre(e) == e["Assigner"].t = "str" /\ HasSubstring(e["Assigner"].s, S_mitre_org)

\* The sum of the counts of the entries of a frequency table that satisfy
\* neither or either side of NamesMitre, as wanted.
RECURSIVE MitreSum(_)
MitreSum(frequency) ==
    IF frequency = <<>> THEN 0
    ELSE (IF NamesMitre(Head(frequency)) THEN Head(frequency)["counts"] ELSE 0)
            + MitreSum(Tail(frequency))

\* C3: for every table with an Assigner column, mitre_cve_count is the sum
\* of the counts of exactly the all_assigners entries whose rewritten
\* assigner contains the substring "mitre.org", which is the number of rows
\* whose rewritten assigner contains it.
C3_MitreCount ==
    Returned =>
        /\ "Assigner" \in data.cols
        /\ cna.mitre_cve_count = MitreSum(cna.all_assigners)
        /\ cna.mitre_cve_count =
             Cardinality({i \in DOMAIN data_copy.rows :
                            NamesMitre([Assigner |-> data_copy.rows[i]["ProcessedAssigner"]])})

\* C4: top_assigners is the entries of all_assigners with count > 100, the
\* first 50 in descending order of count; top_without_mitre is the entries
\* with count > 100 whose rewritten assigner does not contain "mitre.org",
\* the first 20; no entry of top_without_mitre contains "mitre.org" and no
\* entry of either has a count <= 100.
C4_TopLists ==
    Returned =>
        LET over == SelectSeq(cna.all_assigners, LAMBDA e : e["counts"] > 100)
            rest == SelectSeq(over, LAMBDA e : ~NamesMitre(e))
        IN  /\ \A i \in 1..(Len(cna.all_assigners) - 1) :
                    cna.all_assigners[i]["counts"] >= cna.all_assigners[i + 1]["counts"]
            /\ cna.top_assigners = SubSeq(over, 1, Min(50, Len(over)))
            /\ cna.top_without_mitre = SubSeq(rest, 1, Min(20, Len(rest)))
            /\ \A e \in Entries(cna.top_without_mitre) : ~NamesMitre(e)
            /\ \A e \in Entries(cna.top_assigners) \cup Entries(cna.top_without_mitre) :
                    e["counts"] > 100

\* C5: rows whose Assigner is the identifier 416baaa9-... are treated as
\* rows of cve@kernel.org: their Domain is kernel.org, they count as the
\* same distinct assigner, their rows are summed with those of
\* cve@kernel.org in one entry of all_assigners, and the identifier never
\* appears in all_assigners.
C5_KernelRemap ==
    Returned =>
        LET kernel == RowsOf(data, JStr(S_uuid)) + RowsOf(data, JStr(S_kernel))
        IN  /\ \A e \in Entries(cna.all_assigners) : e["Assigner"] # JStr(S_uuid)
            /\ \A x \in {data_copy.rows[i] : i \in DOMAIN data_copy.rows} :
                    x["Assigner"] # JStr(S_uuid)
            /\ kernel > 0 =>
                    FrequencyEntry(<<"k","e","r","n","e","l",".","o","r","g">>, kernel)
                        \in Entries(cna.all_assigners)


\* The rows of the table whose Assigner is not null.
WithAssigner == Cardinality({i \in DOMAIN data.rows : data.rows[i]["Assigner"] \notin {JNaN, JNull}})

\* C29: the counts of all_assigners sum to the number of rows with a
\* non-null Assigner, and so does mitre_cve_count plus the counts of the
\* entries that do not contain "mitre.org".
C29_CountConservation ==
    Returned =>
        /\ SumCounts(cna.all_assigners) = WithAssigner
        /\ cna.mitre_cve_count
             + SumCounts(SelectSeq(cna.all_assigners, LAMBDA e : ~NamesMitre(e))) = WithAssigner

-----------------------------------------------------------------------------
(* analyze_growth_trends.  Percentages are kept in hundredths.             *)

\* round(n / d, 0) for d > 0, halves to the even neighbour.
Round(n, d) ==
    LET q == n \div d
        r == n % d
    IN  IF 2 * r < d THEN q
        ELSE IF 2 * r > d THEN q + 1
        ELSE IF q % 2 = 0 THEN q ELSE q + 1

RECURSIVE DaysBefore(_, _)
DaysBefore(y, mo) == IF mo = 1 THEN 0 ELSE DaysBefore(y, mo - 1) + DaysIn(y, mo - 1)

\* The day number of a date in the proleptic Gregorian calendar, day 1
\* being Monday 0001-01-01.
Ordinal(ts) ==
    365 * (ts.y - 1) + ((ts.y - 1) \div 4) - ((ts.y - 1) \div 100) + ((ts.y - 1) \div 400)
        + DaysBefore(ts.y, ts.mo) + ts.d

\* Series.dt.to_period(freq) on one timestamp: the year, the month, the
\* week from Monday to Sunday (by the day number of its Monday), the day.
to_period(ts, freq) ==
    CASE freq = "Y" -> <<ts.y>>
      [] freq = "M" -> <<ts.y, ts.mo>>
      [] freq = "W" -> <<Ordinal(ts) - ((Ordinal(ts) - 1) % 7)>>
      [] freq = "D" -> <<ts.y, ts.mo, ts.d>>

\* Periods in time order.
PeriodLess(a, b) ==
    \E i \in 1..Len(a) : a[i] < b[i] /\ \A j \in 1..(i - 1) : a[j] = b[j]

\* The elements of a set of periods in ascending order.
RECURSIVE SortedPeriods(_)
SortedPeriods(periods) ==
    IF periods = {} THEN <<>>
    ELSE LET first == CHOOSE a \in periods : \A b \in periods \ {a} : PeriodLess(a, b)
         IN  <<first>> \o SortedPeriods(periods \ {first})

\* A mutant: agg('nunique'), the distinct instants of each period.
period_counts_nunique(rows, freq) ==
    LET dated == {i \in 1..Len(rows) : rows[i]["Published"] # NaT}
        periods == SortedPeriods({to_period(rows[i]["Published"], freq) : i \in dated})
    IN  [k \in 1..Len(periods) |->
            [period |-> periods[k],
             count |-> Cardinality({rows[i]["Published"] : i \in
                                        {j \in dated : to_period(rows[j]["Published"], freq)
                                                            = periods[k]}})]]

\* data['Published'].groupby(data['Published'].dt.to_period(freq)).agg('count'):
\* the periods that hold a row, ascending, each with the number of its rows;
\* a row without a date is in no period.
period_counts(rows, freq) ==
    LET dated == {i \in 1..Len(rows) : rows[i]["Published"] # NaT}
        periods == SortedPeriods({to_period(rows[i]["Published"], freq) : i \in dated})
    IN  [k \in 1..Len(periods) |->
            [period |-> periods[k],
             count |-> Cardinality({i \in dated :
                                      to_period(rows[i]["Published"], freq) = periods[k]})]]

RECURSIVE SumOf(_)
SumOf(numbers) == IF numbers = <<>> THEN 0 ELSE Head(numbers) + SumOf(Tail(numbers))

\* yearly_df: the yearly counts with their share of all rows and their
\* change from the row before, both rounded to two decimals.
yearly_table(yearly) ==
    LET total == SumOf([k \in 1..Len(yearly) |-> yearly[k].count])
    IN  [k \in 1..Len(yearly) |->
            [Published |-> yearly[k].period,
             CVEs |-> yearly[k].count,
             Percentage |-> JNum(Round(10000 * yearly[k].count, total)),
             Growth |-> IF k = 1 THEN JNaN
                        ELSE JNum(Round(10000 * (yearly[k].count - yearly[k - 1].count),
                                        yearly[k - 1].count))]]

\* CVEAnalyzer.analyze_growth_trends(), as a function of the table.
growth_trends(df) ==
    IF df_empty(df) \/ "Published" \notin df.cols THEN EmptyResult
    ELSE [status |-> "ok",
          monthly |-> period_counts(df.rows, "M"),
          yearly |-> yearly_table(period_counts(df.rows, "Y")),
          weekly |-> period_counts(df.rows, "W"),
          daily |-> period_counts(df.rows, "D")]

-----------------------------------------------------------------------------
(* analyze_cvss_distribution.  Scores are kept in tenths.                  *)

\* bins = [0, 1, ..., 10], labels '1' .. '10'
Buckets == 10

\* scores = data['BaseScore'].dropna(), by row number.
scored_rows(rows) == {i \in 1..Len(rows) : rows[i]["BaseScore"].t = "num"}

\* A mutant: the buckets are closed on the left, as with right=False.
score_counts_left_closed(rows) ==
    [k \in 1..Buckets |->
        [BaseScore |-> k,
         count |-> Cardinality({i \in scored_rows(rows) :
                                  /\ 10 * (k - 1) <= rows[i]["BaseScore"].n
                                  /\ rows[i]["BaseScore"].n < 10 * k})]]

\* pd.cut(..., right=True) and value_counts().sort_index(): for each label
\* k the number of scores s with k - 1 < s <= k.
score_counts(rows) ==
    [k \in 1..Buckets |->
        [BaseScore |-> k,
         count |-> Cardinality({i \in scored_rows(rows) :
                                  /\ 10 * (k - 1) < rows[i]["BaseScore"].n
                                  /\ rows[i]["BaseScore"].n <= 10 * k})]]

\* The scores in ascending order, one per scored row.
RECURSIVE SortedScores(_, _)
SortedScores(rows, left) ==
    IF left = {} THEN <<>>
    ELSE LET i == CHOOSE i \in left :
                    \A j \in left : rows[i]["BaseScore"].n <= rows[j]["BaseScore"].n
         IN  <<rows[i]["BaseScore"].n>> \o SortedScores(rows, left \ {i})

\* The statistics of the scores.  least_common is the first of the rarest
\* scores in the order value_counts() leaves them, any of them; the mean is
\* a sum over a number of scores, the median is kept doubled, and the
\* standard deviation by its square as a fraction, missing for one score.
score_statistics(rows) ==
    LET scored == scored_rows(rows)
        values == {rows[i]["BaseScore"].n : i \in scored}
        times == [v \in values |-> Cardinality({i \in scored : rows[i]["BaseScore"].n = v})]
        most == CHOOSE c \in {times[v] : v \in values} : \A v \in values : times[v] <= c
        least == CHOOSE c \in {times[v] : v \in values} : \A v \in values : times[v] >= c
        sorted == SortedScores(rows, scored)
        n == Len(sorted)
        sum == SumOf(sorted)
        squares == SumOf([k \in 1..n |-> sorted[k] * sorted[k]])
    IN  {[most_common |-> CHOOSE v \in values :
                            times[v] = most /\ \A w \in values : times[w] = most => v <= w,
          least_common |-> rare,
          most_common_count |-> most,
          least_common_count |-> least,
          average |-> [sum |-> sum, over |-> n],
          median2 |-> sorted[(n + 1) \div 2] + sorted[(n + 2) \div 2],
          std_squared |-> IF n = 1 THEN JNaN
                          ELSE [t |-> "ratio", num |-> n * squares - sum * sum,
                                den |-> n * (n - 1)]] :
        rare \in {v \in values : times[v] = least}}

\* CVEAnalyzer.analyze_cvss_distribution(), as a function of the table.
cvss_distribution(df) ==
    IF "BaseScore" \notin df.cols THEN {EmptyResult}
    ELSE IF scored_rows(df.rows) = {} THEN {EmptyResult}
    ELSE {[status |-> "ok", distribution |-> score_counts(df.rows), statistics |-> st] :
            st \in score_statistics(df.rows)}

-----------------------------------------------------------------------------
(* analyze_attack_vectors.                                                 *)

\* value_counts().reset_index() with columns ['Attack Vector', 'Count']
vector_counts(order) ==
    [k \in 1..Len(order) |->
        [c \in {"Attack Vector", "Count"} |->
            IF c = "Count" THEN order[k]["counts"] ELSE order[k]["AttackVector"]]]

\* value_counts(normalize=True).mul(100).round(2).reset_index() with
\* columns ['Attack Vector', 'Percentage'], in hundredths.
vector_percentages(order) ==
    LET total == SumCounts(order)
    IN  [k \in 1..Len(order) |->
            [c \in {"Attack Vector", "Percentage"} |->
                IF c = "Percentage" THEN JNum(Round(10000 * order[k]["counts"], total))
                ELSE order[k]["AttackVector"]]]

\* data_with_year['Published'].dt.strftime('%Y') on one cell.
year_of(v) == IF v = NaT THEN JNaN ELSE JNum(v.y)

\* A mutant: the years of the pivot ascend.
yearly_pivot_ascending(rows) ==
    LET both == {i \in 1..Len(rows) :
                    ~IsNA(year_of(rows[i]["Published"])) /\ ~IsNA(rows[i]["AttackVector"])}
        years == SortedPeriods({<<rows[i]["Published"].y>> : i \in both})
        vectors == {rows[i]["AttackVector"] : i \in both}
    IN  [index |-> [k \in 1..Len(years) |-> years[k][1]],
         columns |-> vectors,
         cells |-> [y \in {rows[i]["Published"].y : i \in both}, v \in vectors |->
                        Cardinality({i \in both : /\ rows[i]["Published"].y = y
                                                  /\ rows[i]["AttackVector"] = v})]]

\* The pivot of the counts of (Year, AttackVector): its index, the years of
\* the rows that have both, descending; its columns, their vectors; and in
\* each cell the number of rows, 0 where there is none.
yearly_pivot(rows) ==
    LET both == {i \in 1..Len(rows) :
                    ~IsNA(year_of(rows[i]["Published"])) /\ ~IsNA(rows[i]["AttackVector"])}
        years == SortedPeriods({<<0 - rows[i]["Published"].y>> : i \in both})
        vectors == {rows[i]["AttackVector"] : i \in both}
    IN  [index |-> [k \in 1..Len(years) |-> 0 - years[k][1]],
         columns |-> vectors,
         cells |-> [y \in {rows[i]["Published"].y : i \in both}, v \in vectors |->
                        Cardinality({i \in both : /\ rows[i]["Published"].y = y
                                                  /\ rows[i]["AttackVector"] = v})]]

\* A mutant: the column is read without the check that it exists.
attack_vectors_unguarded(df) ==
    IF "AttackVector" \notin df.cols THEN {Raised}
    ELSE {[status |-> "ok",
           counts |-> vector_counts(order),
           percentages |-> vector_percentages(order),
           yearly_breakdown |-> IF "Published" \in df.cols THEN yearly_pivot(df.rows)
                                ELSE EmptyResult] :
            order \in CountOrders(Frequencies(df.rows, "AttackVector", "AttackVector"))}

\* CVEAnalyzer.analyze_attack_vectors(), as a function of the table: the
\* results it can return.  Only a missing column gives {}.
attack_vectors(df) ==
    IF "AttackVector" \notin df.cols THEN {EmptyResult}
    ELSE {[status |-> "ok",
           counts |-> vector_counts(order),
           percentages |-> vector_percentages(order),
           yearly_breakdown |-> IF "Published" \in df.cols THEN yearly_pivot(df.rows)
                                ELSE EmptyResult] :
            order \in CountOrders(Frequencies(df.rows, "AttackVector", "AttackVector"))}

-----------------------------------------------------------------------------
(* analyze_cwe_distribution.                                               *)

\* cwe_counts['counts'] > 100
SignificantCWE == 100
\* .head(25)
TopCWEs == 25

\* A mutant: a value that occurs exactly 100 times is significant too.
cwe_distribution_at_least(df) ==
    IF "CWE" \notin df.cols THEN {EmptyResult}
    ELSE LET cwe_data == SelectSeq(df.rows, LAMBDA r : ~str_contains(r["CWE"], S_Missing_))
         IN  {[status |-> "ok",
               top_cwes |-> head(SelectSeq(cwe_counts,
                                           LAMBDA e : e["counts"] >= SignificantCWE), TopCWEs),
               total_unique_cwes |-> Len(cwe_counts),
               cwes_with_significant_count |->
                    Len(SelectSeq(cwe_counts, LAMBDA e : e["counts"] >= SignificantCWE))] :
                cwe_counts \in CountOrders(Frequencies(cwe_data, "CWE", "CWE"))}

\* CVEAnalyzer.analyze_cwe_distribution(), as a function of the table: the
\* results it can return.  Only a missing column gives {}.
cwe_distribution(df) ==
    IF "CWE" \notin df.cols THEN {EmptyResult}
    ELSE LET cwe_data == SelectSeq(df.rows, LAMBDA r : ~str_contains(r["CWE"], S_Missing_))
         IN  {[status |-> "ok",
               top_cwes |-> head(SelectSeq(cwe_counts,
                                           LAMBDA e : e["counts"] > SignificantCWE), TopCWEs),
               total_unique_cwes |-> Len(cwe_counts),
               cwes_with_significant_count |->
                    Len(SelectSeq(cwe_counts, LAMBDA e : e["counts"] > SignificantCWE))] :
                cwe_counts \in CountOrders(Frequencies(cwe_data, "CWE", "CWE"))}

-----------------------------------------------------------------------------
(* The five analyses on one table, called in any order.                    *)

AnalysedRow(published, score, vector, weakness, assigner) ==
    [CVE |-> JStr(S_id), Published |-> to_datetime(published), BaseScore |-> score,
     AttackVector |-> JStr(vector), CWE |-> JStr(weakness), Assigner |-> JStr(assigner)]

\* Rows of a cleaned table: scored and dated ones of two years, and the row
\* of an entry that held none of the fields.
AnalysedRows ==
    {AnalysedRow(P_2023_01_15, JNum(98), S_NETWORK, S_CWE78, S_cve_mitre),
     AnalysedRow(P_2023_01_15, JNum(54), S_LOCAL, S_CWE79, S_a_shared),
     AnalysedRow(P_2022_11_05, JNum(98), S_NETWORK, S_CWE79, S_b_shared),
     AnalysedRow(P_missing, JNaN, S_Missing_Data, S_Missing_Data, S_Missing_Data)}

AnalysedColumns == {"CVE", "Published", "BaseScore", "AttackVector", "CWE", "Assigner"}

\* The columns of the table: a Record's, none, and those of tables that
\* lack what an analysis reads.
AnalysedColumnSets ==
    {AnalysedColumns, {}, {"CVE"}, {"CVE", "Published"}, AnalysedColumns \ {"Published"}}

\* How many rows the table has.
MaxAnalysed == 2

\* The years get_year_statistics is asked for.
YearsAnalysed == {2022, 2023}

InitAnalyses ==
    /\ entry0 = Unset /\ entry = Unset /\ touched = {} /\ record0 = Unset /\ record = Unset
    /\ raw_df = Unset /\ processed_data = Unset
    /\ copy_on_write \in BOOLEAN
    /\ \E cols \in AnalysedColumnSets : \E k \in 0..MaxAnalysed :
         \E rows \in [1..k -> AnalysedRows] :
            data = IF cols = {} THEN EmptyFrame ELSE RawTable(cols, rows)
    /\ data_copy = Unset /\ cna = Unset
    /\ growth = Unset /\ cvss = Unset /\ attack = Unset /\ cwe = Unset
    /\ NoLoader
    /\ year \in YearsAnalysed
    /\ filtered = Unset /\ statistics = Unset /\ year_statistics = Unset /\ summary = Unset

\* CVEAnalyzer.analyze_growth_trends()
analyze_growth_trends ==
    /\ growth = Unset
    /\ growth' = growth_trends(data)
    /\ UNCHANGED <<extractVars, cleanVars, data, copy_on_write, data_copy, cna, cvss, attack, cwe, loaderVars, queryVars>>

\* CVEAnalyzer.analyze_cvss_distribution()
analyze_cvss_distribution ==
    /\ cvss = Unset
    /\ cvss' \in cvss_distribution(data)
    /\ UNCHANGED <<extractVars, cleanVars, data, copy_on_write, data_copy, cna, growth, attack, cwe, loaderVars, queryVars>>

\* CVEAnalyzer.analyze_attack_vectors()
analyze_attack_vectors ==
    /\ attack = Unset
    /\ attack' \in attack_vectors(data)
    /\ UNCHANGED <<extractVars, cleanVars, data, copy_on_write, data_copy, cna, growth, cvss, cwe, loaderVars, queryVars>>

\* CVEAnalyzer.analyze_cwe_distribution()
analyze_cwe_distribution ==
    /\ cwe = Unset
    /\ cwe' \in cwe_distribution(data)
    /\ UNCHANGED <<extractVars, cleanVars, data, copy_on_write, data_copy, cna, growth, cvss, attack, loaderVars, queryVars>>

-----------------------------------------------------------------------------
(* The year filter, the statistics and the summary report.                 *)

\* str(n) for n >= 0, as an f-string writes it.
RECURSIVE format_int(_)
format_int(n) ==
    LET last == CASE n % 10 = 0 -> "0" [] n % 10 = 1 -> "1" [] n % 10 = 2 -> "2"
                  [] n % 10 = 3 -> "3" [] n % 10 = 4 -> "4" [] n % 10 = 5 -> "5"
                  [] n % 10 = 6 -> "6" [] n % 10 = 7 -> "7" [] n % 10 = 8 -> "8"
                  [] n % 10 = 9 -> "9"
    IN  IF n < 10 THEN <<last>> ELSE format_int(n \div 10) \o <<last>>

\* f'{y}-01-01', as the comparison with a datetime column reads it.
year_start(y) == to_datetime(JStr(format_int(y) \o <<"-", "0", "1", "-", "0", "1">>))

\* (Published >= f'{y}-01-01') & (Published < f'{y + 1}-01-01') on one cell;
\* a comparison with NaT is false.
year_filter(v, y) ==
    /\ v # NaT
    /\ TsLeq(year_start(y), v)
    /\ TsLess(v, year_start(y + 1))

\* CVEDataProcessor.filter_by_year(df, year): df['Published'] raises a
\* KeyError on a table that has no such column.
filter_by_year(df, y) ==
    IF "Published" \notin df.cols THEN Raised
    ELSE [status |-> "ok",
          table |-> Table(df.cols, SelectSeq(df.rows, LAMBDA r : year_filter(r["Published"], y)))]

\* Series.mean() of BaseScore: a sum over a number of scores, NaN for none.
mean_score(rows) ==
    LET scored == scored_rows(rows)
    IN  IF scored = {} THEN JNaN
        ELSE [t |-> "mean", sum |-> SumOf(SortedScores(rows, scored)),
              over |-> Cardinality(scored)]

\* Series.value_counts().to_dict()
value_counts_dict(rows, col) ==
    [v \in Values(rows, col) |-> Cardinality({i \in 1..Len(rows) : rows[i][col] = v})]

\* A mutant: the rows of every year are counted.
year_stats_unfiltered(df, y) ==
    IF "Published" \notin df.cols THEN EmptyResult
    ELSE IF df_empty(df) THEN [status |-> "ok", year |-> y, count |-> 0]
    ELSE [status |-> "ok", year |-> y, count |-> Len(df.rows)]

\* CVEAnalyzer.get_year_statistics(year), as a function of the table.
year_stats(df, y) ==
    IF "Published" \notin df.cols THEN EmptyResult
    ELSE LET year_data == Table(df.cols,
                                SelectSeq(df.rows, LAMBDA r : year_filter(r["Published"], y)))
         IN  IF df_empty(year_data) THEN [status |-> "ok", year |-> y, count |-> 0]
             ELSE IF "AttackVector" \in df.cols
             THEN [status |-> "ok", year |-> y, count |-> Len(year_data.rows),
                   avg_cvss |-> IF "BaseScore" \in df.cols THEN mean_score(year_data.rows)
                                ELSE JNull,
                   attack_vectors |-> value_counts_dict(year_data.rows, "AttackVector")]
             ELSE [status |-> "ok", year |-> y, count |-> Len(year_data.rows),
                   avg_cvss |-> IF "BaseScore" \in df.cols THEN mean_score(year_data.rows)
                                ELSE JNull]

\* Series.min() / Series.max() of Published: NaT when no row has a date.
published_min(rows) ==
    LET dated == {rows[i]["Published"] : i \in 1..Len(rows)} \ {NaT}
    IN  IF dated = {} THEN NaT ELSE CHOOSE a \in dated : \A b \in dated : TsLeq(a, b)

published_max(rows) ==
    LET dated == {rows[i]["Published"] : i \in 1..Len(rows)} \ {NaT}
    IN  IF dated = {} THEN NaT ELSE CHOOSE a \in dated : \A b \in dated : TsLeq(b, a)

\* (date.today() - date(2000, 1, 1)).days on the days the model runs on.
DaysSince2000 == {9800, 9801}

\* CVEDataProcessor.get_statistics(df): the results it can return.  A table
\* with rows must have Published and BaseScore.
get_statistics(df) ==
    IF df = Unset \/ df_empty(df) THEN {EmptyResult}
    ELSE IF "Published" \notin df.cols \/ "BaseScore" \notin df.cols THEN {Raised}
    ELSE {[status |-> "ok",
           total_cves |-> Len(df.rows),
           unique_dates |-> Cardinality({df.rows[i]["Published"] : i \in 1..Len(df.rows)} \ {NaT}),
           avg_per_day |-> [total |-> Len(df.rows), days |-> days],
           avg_cvss_score |-> mean_score(df.rows),
           date_range |-> [start |-> published_min(df.rows), end |-> published_max(df.rows)]] :
            days \in DaysSince2000}

\* A key the report does not have.
Absent == [t |-> "absent"]

\* growth['yearly'].tail(5)
RecentYears == 5
\* attack_vectors['counts'].head(5)
TopVectors == 5

\* datetime.now() at the instants the model runs at.
Clock == {Timestamp(2024, 1, 1, 0, 0, 0), Timestamp(2024, 1, 1, 0, 0, 1)}

\* A mutant: the first n rows in place of the last n.
tail_oldest(rows, n) == SubSeq(rows, 1, Min(n, Len(rows)))

\* DataFrame.tail(n)
tail(rows, n) == SubSeq(rows, Len(rows) - Min(n, Len(rows)) + 1, Len(rows))

\* CVEAnalyzer.generate_summary_report(), as a function of the table: the
\* reports it can return.  A key is added for each analysis that returns a
\* result that is not empty.
summary_reports(df) ==
    LET g == growth_trends(df)
    IN  {[status |-> "ok",
          total_cves |-> Len(df.rows),
          date_range |-> [start |-> IF "Published" \in df.cols
                                    THEN published_min(df.rows) ELSE JNull,
                          end |-> IF "Published" \in df.cols
                                  THEN published_max(df.rows) ELSE JNull],
          last_updated |-> now,
          cvss_statistics |-> IF "BaseScore" \in df.cols /\ c # EmptyResult
                              THEN c.statistics ELSE Absent,
          recent_growth |-> IF g # EmptyResult THEN tail(g.yearly, RecentYears) ELSE Absent,
          top_attack_vectors |-> IF a # EmptyResult THEN head(a.counts, TopVectors)
                                 ELSE Absent] :
            now \in Clock, c \in cvss_distribution(df), a \in attack_vectors(df)}

-----------------------------------------------------------------------------
(* The queries on one cleaned table and one year, called in any order.     *)

S_2023_01_01 == <<"2","0","2","3","-","0","1","-","0","1">>
S_2024_01_01 == <<"2","0","2","4","-","0","1","-","0","1">>
S_2023_12_31 == <<"2","0","2","3","-","1","2","-","3","1">>
T_last_second == <<"T","2","3",":","5","9",":","5","9">>

\* Rows of a cleaned table around the ends of a year: its first instant,
\* its last second, the first instant of the next year, a day of the year
\* before, and a row without a date.
QueryRows ==
    {AnalysedRow(JStr(S_2023_01_01 \o T_midnight), JNum(98), S_NETWORK, S_CWE78, S_cve_mitre),
     AnalysedRow(JStr(S_2023_12_31 \o T_last_second), JNum(54), S_LOCAL, S_CWE79, S_a_shared),
     AnalysedRow(JStr(S_2024_01_01 \o T_midnight), JNum(75), S_NETWORK, S_CWE79, S_b_shared),
     AnalysedRow(P_2022_11_05, JNaN, S_LOCAL, S_CWE78, S_x_solo),
     AnalysedRow(P_missing, JNaN, S_Missing_Data, S_Missing_Data, S_Missing_Data)}

S_ADJACENT == <<"A","D","J">>
S_PHYSICAL == <<"P","H","Y">>
S_OTHER == <<"O","T","H">>

\* The AttackVector values: those of CVSS, the sentinel of an entry without
\* metrics, and one more than the report lists.
Vectors == <<S_NETWORK, S_LOCAL, S_ADJACENT, S_PHYSICAL, S_Missing_Data, S_OTHER>>

\* The k-th row of a table of more years and more attack vectors than the
\* report lists: a row of the k-th year with the k-th attack vector.
ReportRow(k) ==
    [CVE |-> JStr(S_id), Published |-> Timestamp(2017 + k, 6, 15, 0, 0, 0),
     BaseScore |-> JNum(10 * k), AttackVector |-> JStr(Vectors[k]),
     CWE |-> JStr(S_CWE79), Assigner |-> JStr(S_x_solo)]

\* How often each row stands in the table: all counts different, or the two
\* rarest vectors with the same count.
ReportCounts == {<<1, 2, 3, 4, 5, 6>>, <<1, 1, 2, 3, 4, 5>>}

\* The table with counts[k] copies of the k-th row, from the k-th row on.
RECURSIVE ReportRows(_, _)
ReportRows(counts, k) ==
    IF k > Len(counts) THEN <<>>
    ELSE [i \in 1..counts[k] |-> ReportRow(k)] \o ReportRows(counts, k + 1)

\* The years asked for.
Years == {2022, 2023, 2024}

\* How many rows the table has.
MaxQueried == 2

InitQueries ==
    /\ entry0 = Unset /\ entry = Unset /\ touched = {} /\ record0 = Unset /\ record = Unset
    /\ raw_df = Unset /\ processed_data = Unset
    /\ copy_on_write = FALSE
    /\ \/ \E cols \in AnalysedColumnSets : \E k \in 0..MaxQueried :
            \E rows \in [1..k -> QueryRows] :
                data = IF cols = {} THEN EmptyFrame ELSE RawTable(cols, rows)
       \/ \E counts \in ReportCounts :
            data = RawTable(AnalysedColumns, ReportRows(counts, 1))
    /\ data_copy = Unset /\ cna = Unset
    /\ growth = Unset /\ cvss = Unset /\ attack = Unset /\ cwe = Unset
    /\ NoLoader
    /\ year \in Years
    /\ filtered = Unset /\ statistics = Unset /\ year_statistics = Unset /\ summary = Unset

\* processor.filter_by_year(data, year)
FilterByYear ==
    /\ filtered = Unset
    /\ filtered' = filter_by_year(data, year)
    /\ UNCHANGED <<extractVars, cleanVars, analyzerVars, loaderVars,
                   year, statistics, year_statistics, summary>>

\* processor.get_statistics(data)
GetStatistics ==
    /\ statistics = Unset
    /\ statistics' \in get_statistics(data)
    /\ UNCHANGED <<extractVars, cleanVars, analyzerVars, loaderVars,
                   year, filtered, year_statistics, summary>>

\* analyzer.get_year_statistics(year)
get_year_statistics ==
    /\ year_statistics = Unset
    /\ year_statistics' = year_stats(data, year)
    /\ UNCHANGED <<extractVars, cleanVars, analyzerVars, loaderVars,
                   year, filtered, statistics, summary>>

\* analyzer.generate_summary_report()
generate_summary_report ==
    /\ summary = Unset
    /\ summary' \in summary_reports(data)
    /\ UNCHANGED <<extractVars, cleanVars, analyzerVars, loaderVars,
                   year, filtered, statistics, year_statistics>>

NextQueries ==
    \/ FilterByYear
    \/ GetStatistics
    \/ get_year_statistics
    \/ generate_summary_report

SpecQueries == InitQueries /\ [][NextQueries]_vars

\* An analysis was not run, or returned {}.
NoResult(result) == result \in {Unset, EmptyResult}

\* An analysis was not run, or returned a result that is not empty.
SomeResult(result) == result = Unset \/ result.status = "ok"

\* C11: on the table without rows and columns that process_data gives when
\* no source is read or the sources hold no entry, each of filter_by_year,
\* get_statistics, get_year_statistics and generate_summary_report
\* completes without raising, with an empty or zero-count result.
C11_EmptyTableDownstream ==
    data = EmptyFrame =>
        /\ filtered = Unset \/ (filtered.status = "ok" /\ Len(filtered.table.rows) = 0)
        /\ NoResult(statistics)
        /\ \/ NoResult(year_statistics)
           \/ year_statistics = [status |-> "ok", year |-> year, count |-> 0]
        /\ summary = Unset \/ (summary.status = "ok" /\ summary.total_cves = 0)

\* Published lies in year y: from its first instant on, before the first
\* instant of the year after.
InYear(v, y) ==
    /\ v.t = "ts"
    /\ v.y = y

\* C14: for every table and year Y, filter_by_year returns exactly the rows
\* with Y-01-01T00:00:00 <= Published < (Y+1)-01-01T00:00:00, in their
\* original order.
C14_YearFilterBounds ==
    filtered # Unset =>
        /\ filtered.status = "ok"
        /\ filtered.table.rows = SelectSeq(data.rows, LAMBDA r : InYear(r["Published"], year))

\* C15: for every table with a Published column and every year Y, the count
\* of get_year_statistics(Y) is the number of rows filter_by_year returns
\* for Y, and when that is 0 the result is {'year': Y, 'count': 0}.
C15_YearStatisticsAgree ==
    ("Published" \in data.cols /\ filtered # Unset /\ year_statistics # Unset) =>
        /\ filtered.status = "ok" /\ year_statistics.status = "ok"
        /\ year_statistics.count = Len(filtered.table.rows)
        /\ year_statistics.year = year
        /\ Len(filtered.table.rows) = 0 =>
                year_statistics = [status |-> "ok", year |-> year, count |-> 0]

\* Both were asked for a year that holds one of two rows.
C15_Witness ==
    /\ "Published" \in data.cols /\ Len(data.rows) = 2
    /\ filtered # Unset /\ filtered.status = "ok" /\ Len(filtered.table.rows) = 1
    /\ year_statistics # Unset /\ year_statistics.count = 1


\* The number of rows of the table with attack vector v.
VectorCount(v) == Cardinality({i \in DOMAIN data.rows : data.rows[i]["AttackVector"] = v})

\* The attack vectors of the table.
VectorsPresent == {data.rows[i]["AttackVector"] : i \in DOMAIN data.rows} \ {JNaN, JNull}

\* The years in which a row of the table was published.
YearsPresent ==
    {data.rows[i]["Published"].y : i \in {k \in DOMAIN data.rows : data.rows[k]["Published"] # NaT}}

\* listed holds the (up to) RecentYears most recent rows of the yearly
\* growth table: one row per year, ascending, with the year's count, and no
\* year left out is later than a listed one.
MostRecentYears(listed) ==
    /\ Len(listed) = Min(RecentYears, Cardinality(YearsPresent))
    /\ \A k \in DOMAIN listed :
        /\ listed[k].Published[1] \in YearsPresent
        /\ listed[k].CVEs = Cardinality({i \in DOMAIN data.rows :
                                /\ data.rows[i]["Published"] # NaT
                                /\ data.rows[i]["Published"].y = listed[k].Published[1]})
        /\ \A l \in DOMAIN listed : k < l => listed[k].Published[1] < listed[l].Published[1]
        /\ \A y \in YearsPresent \ {listed[l].Published[1] : l \in DOMAIN listed} :
                y < listed[k].Published[1]
    /\ listed = tail(growth_trends(data).yearly, RecentYears)

\* listed holds the (up to) TopVectors most frequent attack vectors with
\* their counts, the most frequent first, and no vector left out is more
\* frequent than a listed one.
MostFrequentVectors(listed) ==
    /\ Len(listed) = Min(TopVectors, Cardinality(VectorsPresent))
    /\ \A k \in DOMAIN listed :
        /\ listed[k]["Attack Vector"] \in VectorsPresent
        /\ listed[k]["Count"] = VectorCount(listed[k]["Attack Vector"])
        /\ \A l \in DOMAIN listed :
                k < l => /\ listed[k]["Attack Vector"] # listed[l]["Attack Vector"]
                         /\ listed[k]["Count"] >= listed[l]["Count"]
        /\ \A v \in VectorsPresent \ {listed[l]["Attack Vector"] : l \in DOMAIN listed} :
                VectorCount(v) <= listed[k]["Count"]

\* C25: generate_summary_report returns, for every table, a report with the
\* table's row count, the least and greatest Published, the (up to) 5 most
\* recent rows of the yearly growth table and the (up to) 5 most frequent
\* attack vectors; a section whose analysis returns {} is left out.
C25_SummaryReport ==
    summary # Unset =>
        LET rows == data.rows
            dated == {rows[i]["Published"] : i \in {k \in DOMAIN rows : "Published" \in data.cols}} \ {NaT}
        IN  /\ summary.status = "ok"
            /\ summary.total_cves = Len(rows)
            /\ "Published" \notin data.cols =>
                    summary.date_range = [start |-> JNull, end |-> JNull]
            /\ ("Published" \in data.cols /\ dated = {}) =>
                    summary.date_range = [start |-> NaT, end |-> NaT]
            /\ ("Published" \in data.cols /\ dated # {}) =>
                    /\ summary.date_range.start \in dated
                    /\ summary.date_range.end \in dated
                    /\ \A d \in dated : /\ ~TsLess(d, summary.date_range.start)
                                        /\ ~TsLess(summary.date_range.end, d)
            /\ IF growth_trends(data) = EmptyResult THEN summary.recent_growth = Absent
               ELSE MostRecentYears(summary.recent_growth)
            /\ IF attack_vectors(data) = {EmptyResult} THEN summary.top_attack_vectors = Absent
               ELSE MostFrequentVectors(summary.top_attack_vectors)
            /\ IF cvss_distribution(data) = {EmptyResult} THEN summary.cvss_statistics = Absent
               ELSE summary.cvss_statistics \in
                        {c.statistics : c \in cvss_distribution(data)}

\* The report of a table of more years and more attack vectors than it
\* lists: the oldest year and one of the two rarest vectors are left out.
C25_Witness ==
    /\ summary # Unset
    /\ data.cols = AnalysedColumns
    /\ Cardinality(YearsPresent) > RecentYears
    /\ Cardinality(VectorsPresent) > TopVectors
    /\ Len(summary.recent_growth) = RecentYears
    /\ Len(summary.top_attack_vectors) = TopVectors
    /\ summary.top_attack_vectors[TopVectors]["Attack Vector"] = JStr(S_LOCAL)
    /\ summary.cvss_statistics # Absent

-----------------------------------------------------------------------------
(* The analyses of one table: the five distributions and the statistics of *)
(* a year.                                                                 *)

NextAnalyses ==
    \/ analyze_growth_trends
    \/ analyze_cvss_distribution
    \/ analyze_attack_vectors
    \/ analyze_cwe_distribution
    \/ analyze_cna_distribution
    \/ get_year_statistics

SpecAnalyses == InitAnalyses /\ [][NextAnalyses]_vars

\* C10: on every table without rows, with or without columns, each of the
\* five analyses returns {} and none raises.
C10_EmptyTable ==
    Len(data.rows) = 0 =>
        \A result \in {growth, cvss, attack, cwe, cna} : result \in {Unset, EmptyResult}

\* C13: on a table with rows, every analysis whose required column is
\* missing returns {} and does not raise (Published for the growth trends
\* and the year statistics, BaseScore, AttackVector, CWE, Assigner for the
\* four distributions), and every analysis whose column is present returns
\* its result: a result that is not empty, but for the CVSS distribution of
\* a table without any score, which is {}.
C13_MissingColumn ==
    Len(data.rows) > 0 =>
        /\ IF "Published" \in data.cols
           THEN SomeResult(growth) /\ SomeResult(year_statistics)
           ELSE NoResult(growth) /\ NoResult(year_statistics)
        /\ IF "BaseScore" \in data.cols /\ \E i \in DOMAIN data.rows : data.rows[i]["BaseScore"].t = "num"
           THEN SomeResult(cvss) ELSE NoResult(cvss)
        /\ IF "AttackVector" \in data.cols THEN SomeResult(attack) ELSE NoResult(attack)
        /\ IF "CWE" \in data.cols THEN SomeResult(cwe) ELSE NoResult(cwe)
        /\ IF "Assigner" \in data.cols THEN SomeResult(cna) ELSE NoResult(cna)

\* All six have run on a table with rows that has CVE and Published only.
C13_Witness ==
    /\ Len(data.rows) > 0 /\ data.cols = {"CVE", "Published"}
    /\ growth # Unset /\ growth.status = "ok"
    /\ year_statistics # Unset /\ year_statistics.status = "ok"
    /\ cvss = EmptyResult /\ attack = EmptyResult /\ cwe = EmptyResult /\ cna = EmptyResult

-----------------------------------------------------------------------------
(* analyze_growth_trends on tables that spread over several years, some    *)
(* years holding no row.                                                   *)

\* The first year a row can be published in, and how many years follow on.
FirstYear == 2022
MaxYears == 6

\* How many rows one year holds at most.
MaxPerYear == 2

GrowthYears == FirstYear..(FirstYear + MaxYears - 1)

\* A row of the cleaned table published in the middle of January of year y.
GrowthRow(y) == [CVE |-> JStr(S_id), Published |-> Timestamp(y, 1, 15, 0, 0, 0)]

\* A row whose entry held no parsable date.
UndatedRow == [CVE |-> JStr(S_id), Published |-> NaT]

\* The rows of a table that holds perYear[y] rows of each year y from y on.
RECURSIVE GrowthRows(_, _)
GrowthRows(perYear, y) ==
    IF y > FirstYear + MaxYears - 1 THEN <<>>
    ELSE [i \in 1..perYear[y] |-> GrowthRow(y)] \o GrowthRows(perYear, y + 1)

InitGrowth ==
    /\ entry0 = Unset /\ entry = Unset /\ touched = {} /\ record0 = Unset /\ record = Unset
    /\ raw_df = Unset /\ processed_data = Unset
    /\ copy_on_write = FALSE
    /\ \E perYear \in [GrowthYears -> 0..MaxPerYear] : \E undated \in 0..1 :
            data = Table({"CVE", "Published"},
                         GrowthRows(perYear, FirstYear) \o [i \in 1..undated |-> UndatedRow])
    /\ data_copy = Unset /\ cna = Unset
    /\ growth = Unset /\ cvss = Unset /\ attack = Unset /\ cwe = Unset
    /\ NoLoader /\ NoQueries

NextGrowth == analyze_growth_trends

SpecGrowth == InitGrowth /\ [][NextGrowth]_vars

\* The growth analysis returned its tables.
GrowthReturned == growth # Unset /\ growth.status = "ok"

\* The number of rows of the table published in year y.
CountOfYear(y) ==
    Cardinality({i \in DOMAIN data.rows :
                    data.rows[i]["Published"] # NaT /\ data.rows[i]["Published"].y = y})

\* The sum of the yearly percentages, in hundredths.
PercentageSum == SumOf([k \in DOMAIN growth.yearly |-> growth.yearly[k].Percentage.n])

\* C16: for every table with at least one non-null Published and any number
\* of distinct years, the 'Percentage Of CVEs' values of the yearly table sum
\* to 100.0 within 0.01.
C16_PercentagesSum ==
    (GrowthReturned /\ Len(growth.yearly) > 0) =>
        /\ PercentageSum >= 10000 - 1
        /\ PercentageSum <= 10000 + 1

\* C17: the first row's 'Growth YOY' is null, and every later row for year y
\* has 'Growth YOY' = 100 * (count[y] - count[y-1]) / count[y-1] rounded to
\* two decimals, count[y-1] being the CVE count of year y-1.
C17_GrowthYOY ==
    GrowthReturned =>
        \A k \in DOMAIN growth.yearly :
            LET y == growth.yearly[k].Published[1]
            IN  IF k = 1 THEN growth.yearly[k].Growth = JNaN
                ELSE /\ CountOfYear(y - 1) > 0
                     /\ growth.yearly[k].Growth =
                            JNum(Round(10000 * (CountOfYear(y) - CountOfYear(y - 1)),
                                       CountOfYear(y - 1)))

-----------------------------------------------------------------------------
(* analyze_cwe_distribution on tables whose CWE values occur up to and      *)
(* beyond the threshold, and on a table with more significant values than  *)
(* the list keeps.                                                         *)

S_CWE89 == <<"C","W","E","-","8","9">>
S_CWE_ == <<"C","W","E","-">>

\* A row of the cleaned table with its CWE cell.
CweRow(v) == [CVE |-> JStr(S_id), CWE |-> v]

\* n rows with the same CWE cell.
Repeat(v, n) == [i \in 1..n |-> CweRow(v)]

\* How often a value occurs: never, twice, as often as the threshold, more.
Occurrences == {0, 2, SignificantCWE, Many}

\* The rows of sample_data.
SampleCWEs == <<S_CWE78, S_CWE79, S_CWE89, S_CWE78, S_CWE79>>
SampleRows == [i \in 1..Len(SampleCWEs) |-> CweRow(JStr(SampleCWEs[i]))]

\* The rows of a table with `wide` values CWE-1, CWE-2, ..., the k-th
\* occurring Many + k times, from the k-th on.
RECURSIVE WideRows(_, _)
WideRows(k, wide) ==
    IF k > wide THEN <<>>
    ELSE Repeat(JStr(S_CWE_ \o format_int(k)), Many + k) \o WideRows(k + 1, wide)

InitCWE ==
    /\ entry0 = Unset /\ entry = Unset /\ touched = {} /\ record0 = Unset /\ record = Unset
    /\ raw_df = Unset /\ processed_data = Unset
    /\ copy_on_write = FALSE
    /\ \/ \E n78 \in Occurrences : \E n79 \in Occurrences : \E nMissing \in Occurrences :
          \E nNull \in 0..1 :
            data = Table({"CVE", "CWE"},
                         Repeat(JStr(S_CWE78), n78) \o Repeat(JStr(S_Missing_Data), nMissing)
                            \o Repeat(JStr(S_CWE79), n79) \o Repeat(JNull, nNull))
       \/ data = Table({"CVE", "CWE"}, SampleRows)
       \/ \E wide \in {TopCWEs, TopCWEs + 1} :
            data = Table({"CVE", "CWE"},
                         Repeat(JStr(S_Missing_Data), Many) \o WideRows(1, wide))
    /\ data_copy = Unset /\ cna = Unset
    /\ growth = Unset /\ cvss = Unset /\ attack = Unset /\ cwe = Unset
    /\ NoLoader /\ NoQueries

NextCWE == analyze_cwe_distribution

SpecCWE == InitCWE /\ [][NextCWE]_vars

\* The CWE analysis returned its lists.
CweReturned == cwe # Unset /\ cwe.status = "ok"

\* The CWE values counted: strings that do not contain "Missing_".
NonSentinel ==
    {v \in Values(data.rows, "CWE") : v.t = "str" /\ ~HasSubstring(v.s, S_Missing_)}

\* The number of rows holding v as their CWE.
Occurs(v) == Cardinality({i \in DOMAIN data.rows : data.rows[i]["CWE"] = v})

Significant == {v \in NonSentinel : Occurs(v) > 100}

C19_SampleCounts ==
    (CweReturned /\ data.rows = SampleRows) =>
        \A v \in {S_CWE78, S_CWE79} :
            \E i \in DOMAIN cwe.top_cwes :
                cwe.top_cwes[i] = [c \in {"CWE", "counts"} |-> IF c = "CWE" THEN JStr(v) ELSE 2]

-----------------------------------------------------------------------------
(* analyze_cvss_distribution on scores at the edges of the buckets.        *)

\* BaseScore cells, in tenths: 0.0, 0.1, 1.0, 1.1, 7.0, 9.8, 10.0, a score
\* above the last edge, and a missing score.
ScoreCells == {JNum(0), JNum(1), JNum(10), JNum(11), JNum(70), JNum(98), JNum(100),
               JNum(105), JNaN}

\* How many rows the table has.
MaxScored == 3

\* A row of the cleaned table with its BaseScore cell.
ScoreRow(v) == [CVE |-> JStr(S_id), BaseScore |-> v]

InitCVSS ==
    /\ entry0 = Unset /\ entry = Unset /\ touched = {} /\ record0 = Unset /\ record = Unset
    /\ raw_df = Unset /\ processed_data = Unset
    /\ copy_on_write = FALSE
    /\ \E k \in 0..MaxScored : \E cells \in [1..k -> ScoreCells] :
            data = Table({"CVE", "BaseScore"}, [i \in 1..k |-> ScoreRow(cells[i])])
    /\ data_copy = Unset /\ cna = Unset
    /\ growth = Unset /\ cvss = Unset /\ attack = Unset /\ cwe = Unset
    /\ NoLoader /\ NoQueries

NextCVSS == analyze_cvss_distribution

SpecCVSS == InitCVSS /\ [][NextCVSS]_vars

\* The CVSS analysis returned its distribution.
CvssReturned == cvss # Unset /\ cvss.status = "ok"

\* The rows whose score is not null and lies in (k - 1, k]: k is the score
\* rounded up to a whole number.
RowsInBucket(k) ==
    {i \in DOMAIN data.rows :
        /\ data.rows[i]["BaseScore"].t = "num"
        /\ (data.rows[i]["BaseScore"].n + 9) \div 10 = k}

\* C20: for every table with at least one non-null BaseScore and every k in
\* 1..10, the count of the bucket labeled k is the number of rows whose
\* non-null score s satisfies k - 1 < s <= k; null scores are counted in no
\* bucket, and the buckets are listed in the order 1..10.
C20_CvssBuckets ==
    /\ (\E i \in DOMAIN data.rows : data.rows[i]["BaseScore"].t = "num") =>
            (cvss # Unset => cvss.status = "ok")
    /\ CvssReturned =>
        /\ Len(cvss.distribution) = 10
        /\ \A k \in 1..10 :
            /\ cvss.distribution[k].BaseScore = k
            /\ cvss.distribution[k].count = Cardinality(RowsInBucket(k))

\* A whole-number score and a missing score were binned.
C20_Witness ==
    /\ CvssReturned
    /\ \E i \in DOMAIN data.rows : data.rows[i]["BaseScore"] = JNaN
    /\ \E i \in DOMAIN data.rows : data.rows[i]["BaseScore"] = JNum(70)
    /\ cvss.distribution[7].count = 1
    /\ cvss.distribution[8].count = 0

-----------------------------------------------------------------------------
(* The loader: load_raw_data over the sources the locator matches, and     *)
(* process_data on what was loaded.                                        *)

\* A second entry, to tell the entries of the sources apart.
S_id2 == <<"C","V","E","-","2">>
OtherEntry == JDict([cve |-> JDict([id |-> JStr(S_id2), vulnStatus |-> JStr(S_Analyzed)])])

\* What a line of a source, or the whole document of a .json source, holds:
\* nothing but white space, a JSON text, a text that is no JSON, or bytes
\* that are no UTF-8.
BlankLine == [t |-> "blank"]
JsonLine(v) == [t |-> "json", v |-> v]
BadLine == [t |-> "bad"]
UndecodableLine == [t |-> "undecodable"]

\* How open(filename) ends: with a file object, or with the exception of a
\* path that vanished after glob (or a dangling link), of a file the process
\* may not read, of a directory.
OpenOutcomes == {"ok", "FileNotFoundError", "PermissionError", "IsADirectoryError"}

\* except (json.JSONDecodeError, FileNotFoundError)
CaughtOnLoad == {"JSONDecodeError", "FileNotFoundError"}

\* A source: whether its name ends with '.jsonl', how opening it ends, and
\* its lines (one line, the document, for a .json source).
Source(jsonl, open, lines) == [jsonl |-> jsonl, open |-> open, lines |-> lines]

\* A mutant: a list is appended as one entry.
accumulate_append(acc, v) == Append(acc, v)

\* row_accumulator.extend(entry) for a list, .append(entry) otherwise.
accumulate(acc, v) == IF v.t = "list" THEN acc \o v.items ELSE Append(acc, v)

\* The loop over the lines of a .jsonl source: blank lines are skipped, a
\* line that is no JSON is reported and skipped, decoding the file's bytes
\* raises UnicodeDecodeError.
RECURSIVE read_lines(_, _)
read_lines(lines, acc) ==
    IF lines = <<>> THEN [exc |-> "none", acc |-> acc]
    ELSE LET line == Head(lines)
         IN  CASE line.t = "undecodable" -> [exc |-> "UnicodeDecodeError", acc |-> acc]
               [] line.t = "blank" -> read_lines(Tail(lines), acc)
               [] line.t = "bad" -> read_lines(Tail(lines), acc)
               [] line.t = "json" -> read_lines(Tail(lines), accumulate(acc, line.v))

\* json.load(f) on a .json source.
read_document(doc, acc) ==
    CASE doc.t = "undecodable" -> [exc |-> "UnicodeDecodeError", acc |-> acc]
      [] doc.t \in {"bad", "blank"} -> [exc |-> "JSONDecodeError", acc |-> acc]
      [] doc.t = "json" -> [exc |-> "none", acc |-> accumulate(acc, doc.v)]

\* The body of the try statement for one source.
read_source(src, acc) ==
    IF src.open # "ok" THEN [exc |-> src.open, acc |-> acc]
    ELSE IF src.jsonl THEN read_lines(src.lines, acc)
    ELSE read_document(src.lines[1], acc)

\* The loop over glob.glob(self.data_path): an exception the except clause
\* names ends the source, any other leaves load_raw_data.
RECURSIVE read_sources(_, _)
read_sources(sources, acc) ==
    IF sources = <<>> THEN [status |-> "ok", value |-> acc]
    ELSE LET r == read_source(Head(sources), acc)
         IN  IF r.exc = "none" \/ r.exc \in CaughtOnLoad
             THEN read_sources(Tail(sources), r.acc)
             ELSE [status |-> "raised", error |-> r.exc]

\* pd.DataFrame(processed_rows)
DataFrame(rows) == IF rows = <<>> THEN EmptyFrame ELSE Table(Fields, rows)

\* The contents of the .jsonl sources and of the .json sources.
JsonlContents ==
    {<<>>,
     <<JsonLine(FullEntry)>>,
     <<BlankLine, JsonLine(OtherEntry)>>,
     <<BadLine, JsonLine(FullEntry)>>,
     <<BadLine>>,
     <<JsonLine(JList(<<OtherEntry, FullEntry>>))>>,
     <<JsonLine(FullEntry), UndecodableLine>>}
JsonContents ==
    {<<JsonLine(OtherEntry)>>, <<JsonLine(JList(<<FullEntry, OtherEntry>>))>>,
     <<BadLine>>, <<UndecodableLine>>}

Sources ==
    {Source(TRUE, "ok", c) : c \in JsonlContents} \cup {Source(FALSE, "ok", c) : c \in JsonContents}
        \cup {Source(TRUE, o, <<>>) : o \in OpenOutcomes \ {"ok"}}

\* How many sources the locator matches.
MaxSources == 2

InitLoad ==
    /\ entry0 = Unset /\ entry = Unset /\ touched = {} /\ record0 = Unset /\ record = Unset
    /\ raw_df = Unset /\ processed_data = Unset
    /\ data = Unset /\ copy_on_write = FALSE /\ data_copy = Unset
    /\ cna = Unset /\ growth = Unset /\ cvss = Unset /\ attack = Unset /\ cwe = Unset
    /\ \E k \in 0..MaxSources : files \in [1..k -> Sources]
    /\ raw_data = <<>>
    /\ loaded = Unset
    /\ NoQueries

\* CVEDataProcessor.load_raw_data(): raw_data is assigned after the loop.
load_raw_data ==
    LET r == read_sources(files, <<>>)
    IN  /\ raw_data' = IF r.status = "ok" THEN r.value ELSE raw_data
        /\ loaded' = r @@ [op |-> "load_raw_data"]
        /\ UNCHANGED <<files, extractVars, cleanVars, analyzerVars, queryVars>>

\* CVEDataProcessor.process_data(): loads when raw_data is empty, extracts a
\* Record from every entry, cleans the table and keeps it.
process_data ==
    LET r == IF raw_data = <<>> THEN read_sources(files, <<>>)
             ELSE [status |-> "ok", value |-> raw_data]
    IN  IF r.status = "raised"
        THEN /\ loaded' = r @@ [op |-> "process_data"]
             /\ UNCHANGED <<files, raw_data, extractVars, cleanVars, analyzerVars, queryVars>>
        ELSE LET got == [i \in 1..Len(r.value) |-> extract_cve_features(r.value[i])]
             IN  /\ raw_data' = r.value
                 /\ IF \E i \in 1..Len(got) : got[i].raised
                    THEN /\ loaded' = [status |-> "raised", error |-> "Exception",
                                       op |-> "process_data"]
                         /\ UNCHANGED <<raw_df, processed_data>>
                    ELSE /\ raw_df' = DataFrame([i \in 1..Len(got) |-> got[i].rec])
                         /\ processed_data' \in clean_dataframe(raw_df')
                         /\ loaded' = [status |-> "ok", op |-> "process_data"]
                 /\ UNCHANGED <<files, entry0, entry, touched, record0, record,
                                analyzerVars, queryVars>>

NextLoad == load_raw_data \/ process_data

SpecLoad == InitLoad /\ [][NextLoad]_vars

\* The source opens and all of it parses.
ReadsWell(src) ==
    /\ src.open = "ok"
    /\ \A i \in DOMAIN src.lines : src.lines[i].t \in {"json", "blank"}
    /\ ~src.jsonl => src.lines[1].t = "json"

\* The entries of the lines of a source that are JSON texts, in line order.
RECURSIVE EntriesOf(_)
EntriesOf(lines) ==
    IF lines = <<>> THEN <<>>
    ELSE IF Head(lines).t = "json"
         THEN (IF Head(lines).v.t = "list" THEN Head(lines).v.items ELSE <<Head(lines).v>>)
                \o EntriesOf(Tail(lines))
         ELSE EntriesOf(Tail(lines))

\* What the sources may contribute: all the entries of a source that reads
\* well, nothing from a source that fails to open, and from a source with a
\* line that fails to parse nothing or the entries of its other lines.
RECURSIVE Loadable(_)
Loadable(sources) ==
    IF sources = <<>> THEN {<<>>}
    ELSE LET src == Head(sources)
             own == IF ReadsWell(src) THEN {EntriesOf(src.lines)}
                    ELSE IF src.open = "ok" /\ src.jsonl THEN {<<>>, EntriesOf(src.lines)}
                    ELSE {<<>>}
         IN  {a \o b : a \in own, b \in Loadable(Tail(sources))}

\* C12: source-read errors are never fatal: a source that fails to open or
\* to parse, for any reason, is skipped and the entries of every other
\* matched source are still loaded, in source order; when every source fails
\* or none matches, load_raw_data returns an empty list and process_data a
\* zero-row table, with no exception.
C12_ReadErrorsNotFatal ==
    loaded # Unset =>
        /\ loaded.status = "ok"
        /\ raw_data \in Loadable(files)
        /\ loaded.op = "load_raw_data" => loaded.value = raw_data
        /\ (loaded.op = "process_data" /\ Loadable(files) = {<<>>}) =>
                (processed_data # Unset /\ Len(processed_data.rows) = 0)

\* The entries the sources hold, in source and line order: those of the
\* JSON texts of every source that can be opened.
RECURSIVE SourceEntries(_)
SourceEntries(sources) ==
    IF sources = <<>> THEN <<>>
    ELSE (IF Head(sources).open = "ok" THEN EntriesOf(Head(sources).lines) ELSE <<>>)
            \o SourceEntries(Tail(sources))

\* C28: after any sequence of load_raw_data and process_data calls over
\* unchanged sources, raw_data holds each source entry exactly once, and
\* processed_data is the cleaning of raw_data.
C28_LoadProcessSequencing ==
    loaded # Unset =>
        /\ raw_data = SourceEntries(files)
        /\ processed_data # Unset =>
                processed_data \in clean_dataframe(DataFrame(
                    [i \in DOMAIN raw_data |-> extract_cve_features(raw_data[i]).rec]))

-----------------------------------------------------------------------------
(* analyze_attack_vectors on tables of up to six attack vectors over two   *)
(* years, with rows that lack a date or a vector.                          *)

\* The Published cells: a day of each of two years, and none.
P_2022 == Timestamp(2022, 11, 5, 0, 0, 0)
P_2023 == Timestamp(2023, 1, 15, 0, 0, 0)

\* A row of the cleaned table with its Published and AttackVector cells.
VectorRow(published, v) == [CVE |-> JStr(S_id), Published |-> published, AttackVector |-> v]

\* Where the rows of one vector are published: nowhere, in one year, in the
\* other, without a date, in both years.
Placements == {<<>>, <<P_2022>>, <<P_2023>>, <<NaT>>, <<P_2022, P_2023>>}

\* The vectors whose rows are placed freely; the others have no row or one.
FreeVectors == 3

\* The rows of a table that holds, for the k-th vector, a row at each of
\* place[k], from the k-th vector on.
RECURSIVE VectorRows(_, _)
VectorRows(place, k) ==
    IF k > Len(Vectors) THEN <<>>
    ELSE [i \in 1..Len(place[k]) |-> VectorRow(place[k][i], JStr(Vectors[k]))]
            \o VectorRows(place, k + 1)

InitAttack ==
    /\ entry0 = Unset /\ entry = Unset /\ touched = {} /\ record0 = Unset /\ record = Unset
    /\ raw_df = Unset /\ processed_data = Unset
    /\ copy_on_write = FALSE
    /\ \E place \in [1..Len(Vectors) -> Placements] : \E nulls \in {<<>>, <<P_2022>>} :
         /\ \A k \in (FreeVectors + 1)..Len(Vectors) : place[k] \in {<<>>, <<P_2023>>}
         /\ data = Table({"CVE", "Published", "AttackVector"},
                         VectorRows(place, 1)
                            \o [i \in 1..Len(nulls) |-> VectorRow(nulls[i], JNull)])
    /\ data_copy = Unset /\ cna = Unset
    /\ growth = Unset /\ cvss = Unset /\ attack = Unset /\ cwe = Unset
    /\ NoLoader /\ NoQueries

NextAttack == analyze_attack_vectors

SpecAttack == InitAttack /\ [][NextAttack]_vars

\* The attack-vector analysis returned its tables.
AttackReturned == attack # Unset /\ attack.status = "ok"

\* The rows of the table with AttackVector v.
WithVector(v) == {i \in DOMAIN data.rows : data.rows[i]["AttackVector"] = v}

\* The rows of the table that have an AttackVector.
WithAnyVector == {i \in DOMAIN data.rows : data.rows[i]["AttackVector"].t = "str"}

\* The rows of the table published in year y.
InYearRows(y) ==
    {i \in DOMAIN data.rows : data.rows[i]["Published"] # NaT /\ data.rows[i]["Published"].y = y}

\* The sum of the percentages, in hundredths.
VectorPercentageSum ==
    SumOf([k \in DOMAIN attack.percentages |-> attack.percentages[k]["Percentage"].n])

\* C22: for every table with at least one AttackVector value, each entry of
\* the percentages table is 100 * count / total rounded to 2 decimals, and
\* the percentages sum to 100 within 0.01, for any number of distinct values.
C22_VectorPercentages ==
    (AttackReturned /\ WithAnyVector # {}) =>
        /\ \A k \in DOMAIN attack.percentages :
                attack.percentages[k]["Percentage"] =
                    JNum(Round(10000 * Cardinality(WithVector(attack.percentages[k]["Attack Vector"])),
                               Cardinality(WithAnyVector)))
        /\ VectorPercentageSum >= 10000 - 1
        /\ VectorPercentageSum <= 10000 + 1

\* The years in descending order.
Descending(index) == \A i, j \in DOMAIN index : i < j => index[i] > index[j]

\* The cells of the pivot hold the number of rows of their year and vector.
PivotCells(pivot) ==
    \A y \in {pivot.index[k] : k \in DOMAIN pivot.index} : \A v \in pivot.columns :
        pivot.cells[y, v] = Cardinality(InYearRows(y) \cap WithVector(v))

\* C27: the cell (Y, V) of yearly_breakdown is the number of rows published
\* in year Y with AttackVector V, 0 where there is none; the pivot has one
\* row per year that has at least one row and one column per attack-vector
\* value present, the most recent year first.
C27_YearlyPivot ==
    AttackReturned =>
        LET pivot == attack.yearly_breakdown
        IN  /\ PivotCells(pivot)
            /\ Descending(pivot.index)
            /\ {pivot.index[k] : k \in DOMAIN pivot.index}
                    = {data.rows[i]["Published"].y :
                            i \in {j \in DOMAIN data.rows : data.rows[j]["Published"] # NaT}}
            /\ pivot.columns = {data.rows[i]["AttackVector"] : i \in WithAnyVector}

\* C27 as the code has it: a row counts for the pivot when it has both a
\* date and an attack vector; the pivot has one row per year of such a row
\* and one column per attack vector of such a row.
C27_YearlyPivotAmended ==
    AttackReturned =>
        LET pivot == attack.yearly_breakdown
            both == {i \in WithAnyVector : data.rows[i]["Published"] # NaT}
        IN  /\ PivotCells(pivot)
            /\ Descending(pivot.index)
            /\ {pivot.index[k] : k \in DOMAIN pivot.index}
                    = {data.rows[i]["Published"].y : i \in both}
            /\ pivot.columns = {data.rows[i]["AttackVector"] : i \in both}

\* Two years and two vectors, one of them in one year only, next to a row
\* without a vector and a row without a date.
C27_Witness ==
    /\ AttackReturned
    /\ attack.yearly_breakdown.index = <<2023, 2022>>
    /\ attack.yearly_breakdown.columns = {JStr(S_NETWORK), JStr(S_LOCAL)}
    /\ attack.yearly_breakdown.cells[2022, JStr(S_LOCAL)] = 0
    /\ attack.yearly_breakdown.cells[2023, JStr(S_NETWORK)] = 1
    /\ \E i \in DOMAIN data.rows : data.rows[i]["AttackVector"] = JNull
    /\ \E i \in DOMAIN data.rows : data.rows[i]["Published"] = NaT

-----------------------------------------------------------------------------
(* The pipeline: process_data on one source, a CVEAnalyzer on the cleaned  *)
(* table, and its analyses called in any order.                            *)

S_2023_02_20 == <<"2","0","2","3","-","0","2","-","2","0">>
S_2023_03_10 == <<"2","0","2","3","-","0","3","-","1","0">>

\* An entry under analysis with a CVSS v3.1 metric.
ScoredEntry(id, published, assigner, vector, score) ==
    JDict([cve |-> JDict([
        id |-> JStr(id),
        published |-> JStr(published),
        sourceIdentifier |-> JStr(assigner),
        vulnStatus |-> JStr(S_Analyzed),
        metrics |-> JDict([cvssMetricV31 |-> JList(<<JDict([
            cvssData |-> JDict([attackVector |-> vector, baseScore |-> score])])>>)])])])

\* The entries of the sample data: score 5.4 over the network, assigned by
\* MITRE, and a rejected entry (the first one is FullEntry).
MitreEntry == ScoredEntry(S_id2, S_2023_02_20, S_cve_mitre, JStr(S_NETWORK), JNum(54))
RejectedEntry ==
    JDict([cve |-> JDict([id |-> JStr(S_id), published |-> JStr(S_2023_03_10),
                           vulnStatus |-> JStr(S_Rejected)])])

\* An entry whose attackVector is null, one whose published is no date.
NullVectorEntry == ScoredEntry(S_id, S_2022_11_05, S_uuid, JNull, JNum(75))
GarbledEntry ==
    JDict([cve |-> JDict([id |-> JStr(S_id2), published |-> JStr(S_ab),
                           vulnStatus |-> JStr(S_Analyzed)])])

\* The entries a source is drawn from.
PipelineEntries == <<FullEntry, MitreEntry, RejectedEntry, OtherEntry, GarbledEntry>>

\* The entries of a sequence at the positions in chosen, in order.
Chosen(entries, chosen) == SelectSeq(entries, LAMBDA e : \E k \in chosen : entries[k] = e)

InitPipeline ==
    /\ entry0 = Unset /\ entry = Unset /\ touched = {} /\ record0 = Unset /\ record = Unset
    /\ raw_df = Unset /\ processed_data = Unset
    /\ data = Unset /\ copy_on_write = FALSE /\ data_copy = Unset
    /\ cna = Unset /\ growth = Unset /\ cvss = Unset /\ attack = Unset /\ cwe = Unset
    /\ \E chosen \in SUBSET DOMAIN PipelineEntries :
         /\ ~({4, 5} \subseteq chosen)
         /\ files = <<Source(TRUE, "ok", <<JsonLine(JList(Chosen(PipelineEntries, chosen)))>>)>>
    /\ raw_data = <<>>
    /\ loaded = Unset
    /\ year = 2023
    /\ filtered = Unset /\ statistics = Unset /\ year_statistics = Unset /\ summary = Unset

\* CVEAnalyzer(processor.process_data())
CVEAnalyzer ==
    /\ data = Unset
    /\ processed_data # Unset
    /\ data' = processed_data
    /\ UNCHANGED <<extractVars, cleanVars, copy_on_write, data_copy, cna, growth, cvss,
                   attack, cwe, loaderVars, queryVars>>

NextPipeline ==
    \/ loaded = Unset /\ process_data
    \/ CVEAnalyzer
    \/ data # Unset /\ analyze_growth_trends
    \/ data # Unset /\ analyze_cvss_distribution
    \/ data # Unset /\ analyze_attack_vectors
    \/ data # Unset /\ analyze_cna_distribution
    \/ data # Unset /\ get_year_statistics
    \/ data # Unset /\ generate_summary_report

SpecPipeline == InitPipeline /\ [][NextPipeline]_vars

\* The source holds the three entries of the sample data.
SampleData ==
    files = <<Source(TRUE, "ok", <<JsonLine(JList(<<FullEntry, MitreEntry, RejectedEntry>>))>>)>>

\* C21: the three entries of the sample data (9.8 over the network on
\* 2023-01-15, 5.4 over the network on 2023-02-20 assigned by cve@mitre.org,
\* one rejected) give a cleaned table of 2 rows, a CVSS mean of 7.60, the
\* attack-vector counts {NETWORK: 2}, 2 entries in 2023, total_cves 2 and
\* mitre_cve_count 1.
C21_EndToEnd ==
    SampleData =>
        /\ loaded # Unset => (loaded.status = "ok" /\ Len(processed_data.rows) = 2)
        /\ cvss # Unset =>
                /\ cvss.status = "ok"
                /\ 10 * cvss.statistics.average.sum = 760 * cvss.statistics.average.over
        /\ attack # Unset =>
                /\ attack.status = "ok"
                /\ Len(attack.counts) = 1
                /\ attack.counts[1]["Attack Vector"] = JStr(S_NETWORK)
                /\ attack.counts[1]["Count"] = 2
        /\ year_statistics # Unset => (year = 2023 /\ year_statistics.count = 2)
        /\ summary # Unset => summary.total_cves = 2
        /\ cna # Unset => (cna.status = "ok" /\ cna.mitre_cve_count = 1)

\* Every analysis of the scenario has returned.
C21_Witness ==
    /\ SampleData
    /\ processed_data # Unset
    /\ Len(processed_data.rows) = 2
    /\ cvss # Unset /\ attack # Unset /\ cna # Unset
    /\ year_statistics # Unset /\ summary # Unset
    /\ cna.mitre_cve_count = 1

\* The entries of the source, those of them that are not rejected, and
\* those of these whose published is missing or no date.
SourceList == files[1].lines[1].v.items
KeptEntries == SelectSeq(SourceList, LAMBDA e : e # RejectedEntry)
UndatedEntries == SelectSeq(SourceList, LAMBDA e : e \in {OtherEntry, GarbledEntry})

\* The rows of a table whose Published is null.
NullPublished(df) == {i \in DOMAIN df.rows : df.rows[i]["Published"] = NaT}

\* C26: an entry that is not rejected and whose published is missing (the
\* "Missing_Data" sentinel) or cannot be parsed is kept by the cleaning,
\* which does not raise, with a null Published; it is counted by total_cves
\* and by no year.
C26_UnparsableKept ==
    /\ loaded # Unset =>
        /\ loaded.status = "ok"
        /\ Len(processed_data.rows) = Len(KeptEntries)
        /\ Len(KeptEntries) > 0 =>
                Cardinality(NullPublished(processed_data)) = Len(UndatedEntries)
    /\ summary # Unset => summary.total_cves = Len(KeptEntries)
    /\ (growth # Unset /\ growth # EmptyResult) =>
        /\ SumOf([k \in DOMAIN growth.yearly |-> growth.yearly[k].CVEs])
                = Len(KeptEntries) - Len(UndatedEntries)
        /\ SumOf([k \in DOMAIN growth.monthly |-> growth.monthly[k].count])
                = Len(KeptEntries) - Len(UndatedEntries)
    /\ (year_statistics # Unset /\ year_statistics # EmptyResult) =>
            year_statistics.count = Len(KeptEntries) - Len(UndatedEntries)

\* Two dated entries and one whose published is no date: three rows, one of
\* them with a null Published, counted in total_cves and in no year.
C26_Witness ==
    /\ SourceList = <<FullEntry, MitreEntry, GarbledEntry>>
    /\ loaded # Unset
    /\ Cardinality(NullPublished(processed_data)) = 1
    /\ summary # Unset /\ summary.total_cves = 3
    /\ growth # Unset /\ Len(growth.yearly) = 1 /\ growth.yearly[1].CVEs = 2
    /\ year_statistics # Unset /\ year_statistics.count = 2

-----------------------------------------------------------------------------
(* The growth, attack-vector and year analyses on one cleaned table.       *)

S_2022_12_31 == <<"2","0","2","2","-","1","2","-","3","1">>

\* Entries of the last day of a year and the first of the next, which lie
\* in one week, and a second entry of the day of FullEntry.
YearEndEntry == ScoredEntry(S_id2, S_2022_12_31, S_a_shared, JStr(S_LOCAL), JNum(54))
NewYearEntry == ScoredEntry(S_id2, S_2023_01_01, S_b_shared, JStr(S_NETWORK), JNum(75))
SameDayEntry == ScoredEntry(S_id2, S_2023_01_15, S_x_solo, JStr(S_LOCAL), JNum(54))

\* The entries a cleaned table is made of.
CountedEntries ==
    <<FullEntry, SameDayEntry, NullVectorEntry, OtherEntry, YearEndEntry, NewYearEntry>>

InitCounts ==
    /\ entry0 = Unset /\ entry = Unset /\ touched = {} /\ record0 = Unset /\ record = Unset
    /\ raw_df = Unset /\ processed_data = Unset
    /\ copy_on_write = FALSE
    /\ \E chosen \in SUBSET DOMAIN CountedEntries :
         LET entries == Chosen(CountedEntries, chosen)
         IN  data \in clean_dataframe(DataFrame(
                        [i \in DOMAIN entries |-> extract_cve_features(entries[i]).rec]))
    /\ data_copy = Unset /\ cna = Unset
    /\ growth = Unset /\ cvss = Unset /\ attack = Unset /\ cwe = Unset
    /\ NoLoader
    /\ year \in YearsAnalysed
    /\ filtered = Unset /\ statistics = Unset /\ year_statistics = Unset /\ summary = Unset

NextCounts ==
    \/ analyze_growth_trends
    \/ analyze_attack_vectors
    \/ get_year_statistics

SpecCounts == InitCounts /\ [][NextCounts]_vars

\* The sum of the counts of a period series.
SeriesSum(series) == SumOf([k \in DOMAIN series |-> series[k].count])

\* The sum of row y of the pivot over the attack vectors in columns.
RECURSIVE PivotRowSum(_, _, _)
PivotRowSum(pivot, y, columns) ==
    IF columns = {} THEN 0
    ELSE LET v == CHOOSE c \in columns : TRUE
         IN  pivot.cells[y, v] + PivotRowSum(pivot, y, columns \ {v})

\* The yearly growth table and the period series agree with the table: the
\* yearly counts sum to the number of dated rows, as the monthly, weekly and
\* daily series do, and the count of the year asked for is that of
\* get_year_statistics.
GrowthConsistent ==
    (growth # Unset /\ growth # EmptyResult) =>
        LET dated == Len(data.rows) - Cardinality(NullPublished(data))
        IN  /\ SumOf([k \in DOMAIN growth.yearly |-> growth.yearly[k].CVEs]) = dated
            /\ SeriesSum(growth.monthly) = dated
            /\ SeriesSum(growth.weekly) = dated
            /\ SeriesSum(growth.daily) = dated
            /\ \A k \in DOMAIN growth.yearly :
                (year_statistics # Unset /\ growth.yearly[k].Published = <<year>>) =>
                    year_statistics.count = growth.yearly[k].CVEs

\* C30: the yearly growth counts sum to the number of rows with a Published,
\* as the monthly, weekly and daily series do; for every year Y of the
\* yearly table its count is that of get_year_statistics(Y) and the sum of
\* row Y of the year by attack-vector pivot.
C30_CountConsistency ==
    /\ GrowthConsistent
    /\ (growth # Unset /\ growth # EmptyResult /\ attack # Unset /\ attack # EmptyResult) =>
        LET pivot == attack.yearly_breakdown
        IN  \A k \in DOMAIN growth.yearly :
                LET y == growth.yearly[k].Published[1]
                IN  /\ \E l \in DOMAIN pivot.index : pivot.index[l] = y
                    /\ PivotRowSum(pivot, y, pivot.columns) = growth.yearly[k].CVEs

\* C30 as the code has it: row Y of the pivot sums to the number of rows of
\* year Y that have an AttackVector, and the pivot has no row for a year
\* without such a row.
C30_CountConsistencyAmended ==
    /\ GrowthConsistent
    /\ (growth # Unset /\ growth # EmptyResult /\ attack # Unset /\ attack # EmptyResult) =>
        LET pivot == attack.yearly_breakdown
        IN  \A k \in DOMAIN growth.yearly :
                LET y == growth.yearly[k].Published[1]
                    vectored == InYearRows(y) \cap WithAnyVector
                IN  /\ Cardinality(InYearRows(y)) = growth.yearly[k].CVEs
                    /\ (\E l \in DOMAIN pivot.index : pivot.index[l] = y) <=> vectored # {}
                    /\ vectored # {} =>
                            PivotRowSum(pivot, y, pivot.columns) = Cardinality(vectored)

\* The three analyses of a table with two rows of one day, rows of one week
\* in two years, a row without an attack vector and a row without a date.
C30_Witness ==
    /\ growth # Unset /\ growth # EmptyResult
    /\ attack # Unset /\ attack # EmptyResult
    /\ year_statistics # Unset /\ year = 2022
    /\ Len(data.rows) = Len(CountedEntries)
    /\ Len(growth.yearly) = 2
    /\ growth.yearly[1].CVEs = 2 /\ year_statistics.count = 2
    /\ PivotRowSum(attack.yearly_breakdown, 2022, attack.yearly_breakdown.columns) = 1
    /\ Len(growth.weekly) < Len(growth.daily)

-----------------------------------------------------------------------------
(* Every consumer of one table, called in any order.                       *)

\* The rows of the table: one assigned under the identifier of the kernel
\* CNA, one by MITRE.
SharedRows ==
    <<AnalysedRow(P_2023_01_15, JNum(98), S_NETWORK, S_CWE78, S_uuid),
      AnalysedRow(P_2022_11_05, JNum(54), S_LOCAL, S_CWE79, S_cve_mitre)>>

InitReadOnly ==
    /\ entry0 = Unset /\ entry = Unset /\ touched = {} /\ record0 = Unset /\ record = Unset
    /\ raw_df = Unset /\ processed_data = Unset
    /\ copy_on_write = FALSE
    /\ \E k \in 0..Len(SharedRows) : data = RawTable(AnalysedColumns, SubSeq(SharedRows, 1, k))
    /\ data_copy = Unset /\ cna = Unset
    /\ growth = Unset /\ cvss = Unset /\ attack = Unset /\ cwe = Unset
    /\ NoLoader
    /\ year = 2023
    /\ filtered = Unset /\ statistics = Unset /\ year_statistics = Unset /\ summary = Unset

NextReadOnly ==
    \/ analyze_growth_trends
    \/ analyze_cvss_distribution
    \/ analyze_attack_vectors
    \/ analyze_cwe_distribution
    \/ analyze_cna_distribution
    \/ get_year_statistics
    \/ generate_summary_report
    \/ FilterByYear
    \/ GetStatistics

SpecReadOnly == InitReadOnly /\ [][NextReadOnly]_vars

\* C24: no call of an analysis, of get_year_statistics, of
\* generate_summary_report, of filter_by_year or of get_statistics changes
\* the table: after any sequence of calls its rows, columns and values are
\* those before the first call.
C24_ReadOnly == [][data' = data]_vars

\* Every consumer has run, and the CNA analysis has rewritten the Assigner
\* of its copy while the table holds the identifier it was given.
C24_Witness ==
    /\ growth # Unset /\ cvss # Unset /\ attack # Unset /\ cwe # Unset /\ cna # Unset
    /\ year_statistics # Unset /\ summary # Unset /\ filtered # Unset /\ statistics # Unset
    /\ Len(data.rows) = Len(SharedRows)
    /\ data.rows[1]["Assigner"] = JStr(S_uuid)
    /\ data_copy.rows[1]["Assigner"] = JStr(S_kernel)
    /\ data.cols = AnalysedColumns

====
